---- MODULE Spec2Model ----
(***************************************************************************)
(* Content providers of WebServerControl (ContentProviders.h,              *)
(* FilesystemProviders.h, WebServerControl.cpp) as a state machine.        *)
(*                                                                         *)
(* A provider is a record holding the fields of the C++ object.  Every     *)
(* method is an operator that takes the object and the arguments and       *)
(* returns a record                                                        *)
(*    [ret   |-> the bytes copied to the caller's buffer (its length is    *)
(*               the size_t the method returns),                           *)
(*     self  |-> the object after the call,                                *)
(*     io    |-> the seek/read calls issued on the storage handle,         *)
(*     calls |-> the generator/callback/sub-provider invocations made]     *)
(* Bytes are integers; the byte at position i of source number t is        *)
(* 100*t + i, so that a byte says where it came from.                       *)
(***************************************************************************)
EXTENDS Integers, Sequences, FiniteSets, TLC

(* ------------------------------ bounds --------------------------------- *)
MaxSize == 3        \* longest memory region / file / declared generator size
MaxChunk == 2       \* largest maxSize argument of readChunk
MaxPartSize == 2    \* longest content of a part of a MultiPart provider
MaxParts == 2       \* most parts added to a MultiPart provider

MaxBuf == 2         \* largest cache capacity of a BufferedFileProvider

MaxOffset == MaxSize + 1                  \* offsets 0..MaxOffset are requested
MaxPartOffset == MaxParts * MaxPartSize + 1

Min(a, b) == IF a < b THEN a ELSE b
Max(a, b) == IF a > b THEN a ELSE b

\* Content of source t: n bytes, each naming its source and its position.
Bytes(t, n) == [i \in 1..n |-> 100 * t + i]

\* s[from+1 .. from+n] (memcpy(buffer, src + from, n))
Slice(s, from, n) == [i \in 1..n |-> s[from + i]]

Uninit == -1        \* a byte of memory that was never written

NoIO == << >>
NoCalls == << >>
Result(ret, self, io, calls) ==
    [ret |-> ret, self |-> self, io |-> io, calls |-> calls]

(* ----------------------- the storage collaborator ---------------------- *)
\* One readChunk issues at most one seek and one read on its handle; env
\* says how the storage answers them:
\*   seekOk    the seek to a position inside the file succeeds
\*   eofSeekOk a seek to a position past the end of the file succeeds
\*             (differs between the filesystems the library runs on)
\*   short     bytes the read returns less than it could (0: a full read,
\*             MaxChunk or more: nothing)
\* A failed seek is followed by no read, and a read past the end returns
\* nothing whatever the storage does, so these five answers produce every
\* outcome of one call.
Envs ==
    {e \in [seekOk : BOOLEAN, eofSeekOk : BOOLEAN, short : {0, 1, MaxChunk + MaxBuf}] :
        /\ ~e.seekOk => (~e.eofSeekOk /\ e.short = 0)
        /\ e.short > 0 => ~e.eofSeekOk}
Healthy(env) == env.seekOk /\ env.short = 0

\* File: an open handle has a position; data is the content of the file.
ClosedFile == [open |-> FALSE, pos |-> 0, data |-> << >>]
OpenFile(data) == [open |-> TRUE, pos |-> 0, data |-> data]

\* File::seek(off): the result and the handle afterwards.
File_seek(f, off, env) ==
    LET ok == f.open /\ (IF off <= Len(f.data) THEN env.seekOk ELSE env.eofSeekOk)
    IN [ok |-> ok, file |-> IF ok THEN [f EXCEPT !.pos = off] ELSE f]

\* File::read(buf, len): the bytes read and the handle afterwards.
File_read(f, len, env) ==
    LET avail == IF f.open /\ f.pos < Len(f.data) THEN Len(f.data) - f.pos ELSE 0
        got == Max(0, Min(len, avail) - env.short)
    IN [bytes |-> Slice(f.data, f.pos, got),
        file |-> IF f.open THEN [f EXCEPT !.pos = f.pos + got] ELSE f]

SeekIO(off, ok) == [op |-> "seek", arg |-> off, res |-> IF ok THEN 1 ELSE 0]
ReadIO(len, got) == [op |-> "read", arg |-> len, res |-> got]

(* ------------------------- MemoryContentProvider ----------------------- *)
\* A variant that is ready whenever it has a data pointer.
MemoryContentProvider_ReadyIfData(dataNull, data, size, mimeType) ==
    [kind |-> "Memory", dataNull |-> dataNull, data |-> data,
     totalSize |-> size, mimeType |-> mimeType,
     isReady |-> ~dataNull, ownsData |-> FALSE]

MemoryContentProvider(dataNull, data, size, mimeType) ==
    [kind |-> "Memory", dataNull |-> dataNull, data |-> data,
     totalSize |-> size, mimeType |-> mimeType,
     isReady |-> (~dataNull /\ size > 0), ownsData |-> FALSE]

\* A variant that leaves the last remaining byte out.
MemoryContentProvider_readChunk_ShortByOne(self, bufNull, maxSize, offset) ==
    IF ~self.isReady \/ self.dataNull \/ bufNull \/ offset >= self.totalSize
    THEN Result(<< >>, self, NoIO, NoCalls)
    ELSE LET remaining == self.totalSize - offset - 1
             toRead == Min(maxSize, remaining)
         IN Result(Slice(self.data, offset, toRead), self, NoIO, NoCalls)

MemoryContentProvider_readChunk(self, bufNull, maxSize, offset) ==
    IF ~self.isReady \/ self.dataNull \/ bufNull \/ offset >= self.totalSize
    THEN Result(<< >>, self, NoIO, NoCalls)
    ELSE LET remaining == self.totalSize - offset
             toRead == Min(maxSize, remaining)
         IN Result(Slice(self.data, offset, toRead), self, NoIO, NoCalls)

MemoryContentProvider_reset(self) == self

(* ------------------------ generator functions -------------------------- *)
\* A generator is the caller's function of (buffer, maxSize, offset).  The
\* ones the repository ships write the bytes of a stream of their own at
\* the requested offset: up to maxSize of them, at most `burst` per call,
\* and none from position `limit` on (limit > declared size: the generator
\* that always returns maxSize).
Generator(tag, limit, burst) == [tag |-> tag, limit |-> limit, burst |-> burst]
NullGenerator == [tag |-> 0, limit |-> 0, burst |-> 0]

Generate(g, maxSize, offset) ==
    IF offset >= g.limit THEN << >>
    ELSE LET n == Min(g.burst, Min(maxSize, g.limit - offset))
         IN [i \in 1..n |-> 100 * g.tag + offset + i]

GenCall(maxSize, offset, ret) ==
    [callee |-> 0, maxSize |-> maxSize, offset |-> offset, ret |-> ret]

(* ----------------------- GeneratorContentProvider ---------------------- *)
GeneratorContentProvider(genNull, generator, totalSize, mimeType) ==
    [kind |-> "Generator", genNull |-> genNull,
     generator |-> IF genNull THEN NullGenerator ELSE generator,
     totalSize |-> totalSize, mimeType |-> mimeType, isReady |-> ~genNull]

\* A variant that asks the generator for no more than the declared total
\* leaves.
GeneratorContentProvider_readChunk_Clamped(self, bufNull, maxSize, offset) ==
    IF ~self.isReady \/ self.genNull \/ bufNull \/ offset >= self.totalSize
    THEN Result(<< >>, self, NoIO, NoCalls)
    ELSE LET toRead == Min(maxSize, self.totalSize - offset)
             out == Generate(self.generator, toRead, offset)
         IN Result(out, self, NoIO, << GenCall(toRead, offset, out) >>)

GeneratorContentProvider_readChunk(self, bufNull, maxSize, offset) ==
    IF ~self.isReady \/ self.genNull \/ bufNull \/ offset >= self.totalSize
    THEN Result(<< >>, self, NoIO, NoCalls)
    ELSE LET out == Generate(self.generator, maxSize, offset)
         IN Result(out, self, NoIO, << GenCall(maxSize, offset, out) >>)

GeneratorContentProvider_reset(self) == self

(* ------------------------ CallbackContentProvider ---------------------- *)
CallbackContentProvider(cbNull, callback, totalSize, mimeType) ==
    [kind |-> "Callback", genNull |-> cbNull,
     generator |-> IF cbNull THEN NullGenerator ELSE callback,
     totalSize |-> totalSize, mimeType |-> mimeType, isReady |-> ~cbNull]

CallbackContentProvider_readChunk(self, bufNull, maxSize, offset) ==
    IF ~self.isReady \/ self.genNull \/ bufNull
    THEN Result(<< >>, self, NoIO, NoCalls)
    ELSE LET out == Generate(self.generator, maxSize, offset)
         IN Result(out, self, NoIO, << GenCall(maxSize, offset, out) >>)

CallbackContentProvider_reset(self) == self

(* ----------------------- getMimeTypeFromExtension ---------------------- *)
\* The extension is compared with string literals by address (ext ==
\* "html"): the comparison is true only where the build stores the literal
\* at the address ext points to, which sameAddr says.
OctetStream == "application/octet-stream"
getMimeTypeFromExtension(ext, sameAddr) ==
    IF ext = "" THEN OctetStream
    ELSE IF sameAddr /\ ext = "html" THEN "text/html"
    ELSE IF sameAddr /\ ext = "txt" THEN "text/plain"
    ELSE OctetStream

(* -------------------------- FileContentProvider ------------------------ *)
\* exists/openOk: what fs->exists and fs->open answer; data: the content of
\* the file; garbage: the value of the member _mimeType when the
\* constructor returns without assigning it.
FileContentProvider(exists, openOk, data, ext, sameAddr, garbage) ==
    IF exists /\ openOk
    THEN [kind |-> "File", file |-> OpenFile(data), totalSize |-> Len(data),
          mimeType |-> getMimeTypeFromExtension(ext, sameAddr), isReady |-> TRUE]
    ELSE [kind |-> "File", file |-> ClosedFile, totalSize |-> 0,
          mimeType |-> garbage, isReady |-> FALSE]

\* Mutant: the read is made at the current position, the seek is forgotten.
FileContentProvider_readChunk_NoSeek(self, bufNull, maxSize, offset, env) ==
    IF ~self.isReady \/ ~self.file.open \/ bufNull
    THEN Result(<< >>, self, NoIO, NoCalls)
    ELSE LET rd == File_read(self.file, maxSize, env)
         IN Result(rd.bytes, [self EXCEPT !.file = rd.file],
                   << ReadIO(maxSize, Len(rd.bytes)) >>, NoCalls)

FileContentProvider_readChunk(self, bufNull, maxSize, offset, env) ==
    IF ~self.isReady \/ ~self.file.open \/ bufNull
    THEN Result(<< >>, self, NoIO, NoCalls)
    ELSE LET needSeek == self.file.pos # offset
             sk == File_seek(self.file, offset, env)
             io1 == IF needSeek THEN << SeekIO(offset, sk.ok) >> ELSE NoIO
         IN IF needSeek /\ ~sk.ok
            THEN Result(<< >>, [self EXCEPT !.file = sk.file], io1, NoCalls)
            ELSE LET f1 == IF needSeek THEN sk.file ELSE self.file
                     rd == File_read(f1, maxSize, env)
                 IN Result(rd.bytes, [self EXCEPT !.file = rd.file],
                           Append(io1, ReadIO(maxSize, Len(rd.bytes))), NoCalls)

FileContentProvider_reset(self, env) ==
    IF self.file.open
    THEN Result(<< >>, [self EXCEPT !.file = File_seek(self.file, 0, env).file],
                << SeekIO(0, File_seek(self.file, 0, env).ok) >>, NoCalls)
    ELSE Result(<< >>, self, NoIO, NoCalls)

FileContentProvider_isReady(self) == self.isReady /\ self.file.open

(* ---------------------------- LittleFSProvider ------------------------- *)
LittleFSProvider(exists, openOk, data, ext, sameAddr, garbage) ==
    IF exists /\ openOk
    THEN [kind |-> "LittleFS", file |-> OpenFile(data), totalSize |-> Len(data),
          mimeType |-> getMimeTypeFromExtension(ext, sameAddr), isReady |-> TRUE]
    ELSE [kind |-> "LittleFS", file |-> ClosedFile, totalSize |-> 0,
          mimeType |-> garbage, isReady |-> FALSE]

LittleFSProvider_readChunk(self, bufNull, maxSize, offset, env) ==
    IF ~self.isReady \/ ~self.file.open \/ bufNull
    THEN Result(<< >>, self, NoIO, NoCalls)
    ELSE LET needSeek == self.file.pos # offset
             sk == File_seek(self.file, offset, env)
             io1 == IF needSeek THEN << SeekIO(offset, sk.ok) >> ELSE NoIO
         IN IF needSeek /\ ~sk.ok
            THEN Result(<< >>, [self EXCEPT !.file = sk.file], io1, NoCalls)
            ELSE LET f1 == IF needSeek THEN sk.file ELSE self.file
                     rd == File_read(f1, maxSize, env)
                 IN Result(rd.bytes, [self EXCEPT !.file = rd.file],
                           Append(io1, ReadIO(maxSize, Len(rd.bytes))), NoCalls)

LittleFSProvider_reset(self, env) ==
    IF self.file.open
    THEN Result(<< >>, [self EXCEPT !.file = File_seek(self.file, 0, env).file],
                << SeekIO(0, File_seek(self.file, 0, env).ok) >>, NoCalls)
    ELSE Result(<< >>, self, NoIO, NoCalls)

(* -------------------------- BufferedFileProvider ----------------------- *)
\* A variant that leaves the file open when the cache cannot be allocated.
BufferedFileProvider_FileLeftOpen(exists, openOk, allocOk, data, bufferSize, ext, sameAddr, garbage) ==
    LET base == [kind |-> "BufferedFile", file |-> ClosedFile, totalSize |-> 0,
                 bufferSize |-> bufferSize, bufferNull |-> TRUE, buffer |-> << >>,
                 bufferOffset |-> 0, bufferDataSize |-> 0,
                 mimeType |-> garbage, isReady |-> FALSE, eof |-> FALSE]
    IN IF ~(exists /\ openOk) THEN base
       ELSE IF ~allocOk
            THEN [base EXCEPT !.file = OpenFile(data), !.totalSize = Len(data),
                              !.mimeType = getMimeTypeFromExtension(ext, sameAddr)]
            ELSE [base EXCEPT !.file = OpenFile(data), !.totalSize = Len(data),
                              !.mimeType = getMimeTypeFromExtension(ext, sameAddr),
                              !.bufferNull = FALSE,
                              !.buffer = [i \in 1..bufferSize |-> Uninit],
                              !.isReady = TRUE]

\* allocOk: new(std::nothrow) returned memory.  The cache _buffer is
\* bufferSize bytes of memory that nothing has written yet.
BufferedFileProvider(exists, openOk, allocOk, data, bufferSize, ext, sameAddr, garbage) ==
    LET base == [kind |-> "BufferedFile", file |-> ClosedFile, totalSize |-> 0,
                 bufferSize |-> bufferSize, bufferNull |-> TRUE, buffer |-> << >>,
                 bufferOffset |-> 0, bufferDataSize |-> 0,
                 mimeType |-> garbage, isReady |-> FALSE, eof |-> FALSE]
    IN IF ~(exists /\ openOk) THEN base
       ELSE IF ~allocOk
            THEN [base EXCEPT !.totalSize = Len(data),
                              !.mimeType = getMimeTypeFromExtension(ext, sameAddr)]
            ELSE [base EXCEPT !.file = OpenFile(data), !.totalSize = Len(data),
                              !.mimeType = getMimeTypeFromExtension(ext, sameAddr),
                              !.bufferNull = FALSE,
                              !.buffer = [i \in 1..bufferSize |-> Uninit],
                              !.isReady = TRUE]

\* Mutant: the end of the window counts as inside it.
BufferedFileProvider_fillBuffer_InclusiveEnd(self, targetOffset, env) ==
    IF ~self.file.open \/ self.bufferNull
    THEN [ok |-> FALSE, self |-> self, io |-> NoIO]
    ELSE IF targetOffset >= self.bufferOffset
            /\ targetOffset <= self.bufferOffset + self.bufferDataSize
    THEN [ok |-> TRUE, self |-> self, io |-> NoIO]
    ELSE LET sk == File_seek(self.file, targetOffset, env)
         IN IF ~sk.ok
            THEN [ok |-> FALSE, self |-> [self EXCEPT !.file = sk.file],
                  io |-> << SeekIO(targetOffset, FALSE) >>]
            ELSE LET rd == File_read(sk.file, self.bufferSize, env)
                     got == Len(rd.bytes)
                 IN [ok |-> got > 0,
                     self |-> [self EXCEPT
                        !.file = rd.file,
                        !.bufferOffset = targetOffset,
                        !.bufferDataSize = got,
                        !.buffer = [i \in 1..self.bufferSize |->
                                      IF i <= got THEN rd.bytes[i] ELSE self.buffer[i]],
                        !.eof = (got = 0) \/ (targetOffset + got >= self.totalSize)],
                     io |-> << SeekIO(targetOffset, TRUE),
                               ReadIO(self.bufferSize, got) >>]

\* Mutant: the window is not consulted, every call seeks and refills.
BufferedFileProvider_fillBuffer_AlwaysRefill(self, targetOffset, env) ==
    IF ~self.file.open \/ self.bufferNull
    THEN [ok |-> FALSE, self |-> self, io |-> NoIO]
    ELSE LET sk == File_seek(self.file, targetOffset, env)
         IN IF ~sk.ok
            THEN [ok |-> FALSE, self |-> [self EXCEPT !.file = sk.file],
                  io |-> << SeekIO(targetOffset, FALSE) >>]
            ELSE LET rd == File_read(sk.file, self.bufferSize, env)
                     got == Len(rd.bytes)
                 IN [ok |-> got > 0,
                     self |-> [self EXCEPT
                        !.file = rd.file,
                        !.bufferOffset = targetOffset,
                        !.bufferDataSize = got,
                        !.buffer = [i \in 1..self.bufferSize |->
                                      IF i <= got THEN rd.bytes[i] ELSE self.buffer[i]],
                        !.eof = (got = 0) \/ (targetOffset + got >= self.totalSize)],
                     io |-> << SeekIO(targetOffset, TRUE),
                               ReadIO(self.bufferSize, got) >>]

\* fillBuffer: [ok |-> its result, self |-> the object after, io |-> storage calls]
BufferedFileProvider_fillBuffer(self, targetOffset, env) ==
    IF ~self.file.open \/ self.bufferNull
    THEN [ok |-> FALSE, self |-> self, io |-> NoIO]
    ELSE IF targetOffset >= self.bufferOffset
            /\ targetOffset < self.bufferOffset + self.bufferDataSize
    THEN [ok |-> TRUE, self |-> self, io |-> NoIO]
    ELSE LET sk == File_seek(self.file, targetOffset, env)
         IN IF ~sk.ok
            THEN [ok |-> FALSE, self |-> [self EXCEPT !.file = sk.file],
                  io |-> << SeekIO(targetOffset, FALSE) >>]
            ELSE LET rd == File_read(sk.file, self.bufferSize, env)
                     got == Len(rd.bytes)
                 IN [ok |-> got > 0,
                     self |-> [self EXCEPT
                        !.file = rd.file,
                        !.bufferOffset = targetOffset,
                        !.bufferDataSize = got,
                        !.buffer = [i \in 1..self.bufferSize |->
                                      IF i <= got THEN rd.bytes[i] ELSE self.buffer[i]],
                        !.eof = (got = 0) \/ (targetOffset + got >= self.totalSize)],
                     io |-> << SeekIO(targetOffset, TRUE),
                               ReadIO(self.bufferSize, got) >>]

\* Mutant: the copy is capped by the capacity of the cache, not by the bytes
\* the last refill put into it.
BufferedFileProvider_readChunk_CapacityCap(self, bufNull, maxSize, offset, env) ==
    IF ~self.isReady \/ bufNull \/ offset >= self.totalSize
    THEN Result(<< >>, self, NoIO, NoCalls)
    ELSE LET fb == BufferedFileProvider_fillBuffer(self, offset, env)
         IN IF ~fb.ok
            THEN Result(<< >>, fb.self, fb.io, NoCalls)
            ELSE LET bufferIndex == offset - fb.self.bufferOffset
                     availableInBuffer == fb.self.bufferSize - bufferIndex
                     toRead == Min(maxSize, availableInBuffer)
                 IN Result(Slice(fb.self.buffer, bufferIndex, toRead),
                           fb.self, fb.io, NoCalls)

\* A variant that refills once more to satisfy the rest of maxSize.
BufferedFileProvider_readChunk_Greedy(self, bufNull, maxSize, offset, env) ==
    IF ~self.isReady \/ bufNull \/ offset >= self.totalSize
    THEN Result(<< >>, self, NoIO, NoCalls)
    ELSE LET fb == BufferedFileProvider_fillBuffer(self, offset, env)
         IN IF ~fb.ok
            THEN Result(<< >>, fb.self, fb.io, NoCalls)
            ELSE LET bufferIndex == offset - fb.self.bufferOffset
                     availableInBuffer == fb.self.bufferDataSize - bufferIndex
                     toRead == Min(maxSize, availableInBuffer)
                     first == Slice(fb.self.buffer, bufferIndex, toRead)
                     more == BufferedFileProvider_fillBuffer(fb.self, offset + toRead, env)
                 IN IF toRead = maxSize \/ offset + toRead >= self.totalSize \/ ~more.ok
                    THEN Result(first, fb.self, fb.io, NoCalls)
                    ELSE Result(first \o Slice(more.self.buffer, 0,
                                               Min(maxSize - toRead,
                                                   more.self.bufferDataSize)),
                                more.self, fb.io \o more.io, NoCalls)

\* A variant that counts one byte too few in the window.
BufferedFileProvider_readChunk_AvailableShort(self, bufNull, maxSize, offset, env) ==
    IF ~self.isReady \/ bufNull \/ offset >= self.totalSize
    THEN Result(<< >>, self, NoIO, NoCalls)
    ELSE LET fb == BufferedFileProvider_fillBuffer(self, offset, env)
         IN IF ~fb.ok
            THEN Result(<< >>, fb.self, fb.io, NoCalls)
            ELSE LET bufferIndex == offset - fb.self.bufferOffset
                     availableInBuffer == fb.self.bufferDataSize - bufferIndex - 1
                     toRead == Min(maxSize, availableInBuffer)
                 IN Result(Slice(fb.self.buffer, bufferIndex, toRead),
                           fb.self, fb.io, NoCalls)

BufferedFileProvider_readChunk(self, bufNull, maxSize, offset, env) ==
    IF ~self.isReady \/ bufNull \/ offset >= self.totalSize
    THEN Result(<< >>, self, NoIO, NoCalls)
    ELSE LET fb == BufferedFileProvider_fillBuffer(self, offset, env)
         IN IF ~fb.ok
            THEN Result(<< >>, fb.self, fb.io, NoCalls)
            ELSE LET bufferIndex == offset - fb.self.bufferOffset
                     availableInBuffer == fb.self.bufferDataSize - bufferIndex
                     toRead == Min(maxSize, availableInBuffer)
                 IN Result(Slice(fb.self.buffer, bufferIndex, toRead),
                           fb.self, fb.io, NoCalls)

\* Mutant: the handle is rewound but the window is left as it was.
BufferedFileProvider_reset_WindowKept(self, env) ==
    IF self.file.open
    THEN Result(<< >>,
                [self EXCEPT !.file = File_seek(self.file, 0, env).file],
                << SeekIO(0, File_seek(self.file, 0, env).ok) >>, NoCalls)
    ELSE Result(<< >>, self, NoIO, NoCalls)

BufferedFileProvider_reset(self, env) ==
    IF self.file.open
    THEN Result(<< >>,
                [self EXCEPT !.file = File_seek(self.file, 0, env).file,
                             !.bufferOffset = 0, !.bufferDataSize = 0,
                             !.eof = FALSE],
                << SeekIO(0, File_seek(self.file, 0, env).ok) >>, NoCalls)
    ELSE Result(<< >>, self, NoIO, NoCalls)

(* ----------------------------- dispatch -------------------------------- *)
\* The virtual calls on a provider that is not a MultiPartContentProvider.
LeafReadChunk(p, bufNull, maxSize, offset, env) ==
    CASE p.kind = "Memory" -> MemoryContentProvider_readChunk(p, bufNull, maxSize, offset)
      [] p.kind = "Generator" -> GeneratorContentProvider_readChunk(p, bufNull, maxSize, offset)
      [] p.kind = "Callback" -> CallbackContentProvider_readChunk(p, bufNull, maxSize, offset)
      [] p.kind = "File" -> FileContentProvider_readChunk(p, bufNull, maxSize, offset, env)
      [] p.kind = "LittleFS" -> LittleFSProvider_readChunk(p, bufNull, maxSize, offset, env)
      [] p.kind = "BufferedFile" -> BufferedFileProvider_readChunk(p, bufNull, maxSize, offset, env)

LeafReset(p, env) ==
    CASE p.kind = "Memory" -> Result(<< >>, MemoryContentProvider_reset(p), NoIO, NoCalls)
      [] p.kind = "Generator" -> Result(<< >>, GeneratorContentProvider_reset(p), NoIO, NoCalls)
      [] p.kind = "Callback" -> Result(<< >>, CallbackContentProvider_reset(p), NoIO, NoCalls)
      [] p.kind = "File" -> FileContentProvider_reset(p, env)
      [] p.kind = "LittleFS" -> LittleFSProvider_reset(p, env)
      [] p.kind = "BufferedFile" -> BufferedFileProvider_reset(p, env)

isReady(p) ==
    IF p.kind = "File" THEN FileContentProvider_isReady(p) ELSE p.isReady

getTotalSize(p) == p.totalSize

getMimeType(p) == p.mimeType

(* ------------------------ MultiPartContentProvider --------------------- *)
MultiPartContentProvider(mimeType) ==
    [kind |-> "MultiPart", parts |-> << >>, totalSize |-> 0,
     mimeType |-> mimeType, isReady |-> TRUE]

ContentPart(provider, startOffset, size) ==
    [provider |-> provider, startOffset |-> startOffset, size |-> size]

\* Mutant: the total is set to the size of the new part, not extended by it.
MultiPartContentProvider_addPart_TotalReplaced(self, absent, provider) ==
    IF absent \/ ~isReady(provider)
    THEN [ok |-> FALSE, self |-> self]
    ELSE LET part == ContentPart(provider, self.totalSize, getTotalSize(provider))
         IN [ok |-> TRUE,
             self |-> [self EXCEPT !.totalSize = part.size,
                                   !.parts = Append(self.parts, part)]]

\* Mutant: only a null pointer is rejected, readiness is not asked.
MultiPartContentProvider_addPart_NoReadyCheck(self, absent, provider) ==
    IF absent
    THEN [ok |-> FALSE, self |-> self]
    ELSE LET part == ContentPart(provider, self.totalSize, getTotalSize(provider))
         IN [ok |-> TRUE,
             self |-> [self EXCEPT !.totalSize = self.totalSize + part.size,
                                   !.parts = Append(self.parts, part)]]

\* addPart: absent is a null unique_ptr.  ok is the bool it returns.
MultiPartContentProvider_addPart(self, absent, provider) ==
    IF absent \/ ~isReady(provider)
    THEN [ok |-> FALSE, self |-> self]
    ELSE LET part == ContentPart(provider, self.totalSize, getTotalSize(provider))
         IN [ok |-> TRUE,
             self |-> [self EXCEPT !.totalSize = self.totalSize + part.size,
                                   !.parts = Append(self.parts, part)]]

PartCall(i, maxSize, offset, ret) ==
    [callee |-> i, maxSize |-> maxSize, offset |-> offset, ret |-> ret]

\* Mutant: the range test includes the end of the part.
Owners_InclusiveEnd(self, offset) ==
    {i \in 1..Len(self.parts) :
        offset >= self.parts[i].startOffset
        /\ offset <= self.parts[i].startOffset + self.parts[i].size}

\* The parts that the loop of readChunk would stop at, in vector order.
Owners(self, offset) ==
    {i \in 1..Len(self.parts) :
        offset >= self.parts[i].startOffset
        /\ offset < self.parts[i].startOffset + self.parts[i].size}

FirstOwner(self, offset) ==
    CHOOSE i \in Owners(self, offset) : \A j \in Owners(self, offset) : i <= j

\* Mutant: the part is read with maxSize, not with the remainder of the part.
MultiPartContentProvider_readChunk_Uncapped(self, bufNull, maxSize, offset, env) ==
    IF ~self.isReady \/ bufNull \/ offset >= self.totalSize
    THEN Result(<< >>, self, NoIO, NoCalls)
    ELSE IF Owners(self, offset) = {}
    THEN Result(<< >>, self, NoIO, NoCalls)
    ELSE LET i == FirstOwner(self, offset)
             part == self.parts[i]
             partOffset == offset - part.startOffset
             r == LeafReadChunk(part.provider, bufNull, maxSize, partOffset, env)
         IN Result(r.ret, [self EXCEPT !.parts[i].provider = r.self], r.io,
                   << PartCall(i, maxSize, partOffset, r.ret) >> \o r.calls)

MultiPartContentProvider_readChunk(self, bufNull, maxSize, offset, env) ==
    IF ~self.isReady \/ bufNull \/ offset >= self.totalSize
    THEN Result(<< >>, self, NoIO, NoCalls)
    ELSE IF Owners(self, offset) = {}
    THEN Result(<< >>, self, NoIO, NoCalls)
    ELSE LET i == FirstOwner(self, offset)
             part == self.parts[i]
             partOffset == offset - part.startOffset
             partRemaining == part.size - partOffset
             toRead == Min(maxSize, partRemaining)
             r == LeafReadChunk(part.provider, bufNull, toRead, partOffset, env)
         IN Result(r.ret, [self EXCEPT !.parts[i].provider = r.self], r.io,
                   << PartCall(i, toRead, partOffset, r.ret) >> \o r.calls)

RECURSIVE ResetParts(_, _, _)
\* reset() of parts i..Len(parts), in order: the parts after and the io issued.
ResetParts(parts, i, env) ==
    IF i > Len(parts) THEN [parts |-> parts, io |-> NoIO]
    ELSE LET r == LeafReset(parts[i].provider, env)
             rest == ResetParts([parts EXCEPT ![i].provider = r.self], i + 1, env)
         IN [parts |-> rest.parts, io |-> r.io \o rest.io]

MultiPartContentProvider_reset(self, env) ==
    LET r == ResetParts(self.parts, 1, env)
    IN Result(<< >>, [self EXCEPT !.parts = r.parts], r.io, NoCalls)

\* ContentProvider::readChunk / reset on any provider
ProviderReadChunk(p, bufNull, maxSize, offset, env) ==
    IF p.kind = "MultiPart"
    THEN MultiPartContentProvider_readChunk(p, bufNull, maxSize, offset, env)
    ELSE LeafReadChunk(p, bufNull, maxSize, offset, env)

ProviderReset(p, env) ==
    IF p.kind = "MultiPart" THEN MultiPartContentProvider_reset(p, env)
    ELSE LeafReset(p, env)

(* ----------------------- FilesystemProviderFactory ---------------------- *)
FactoryBufferSize == 4096     \* the default bufferSize of BufferedFileProvider

\* create(filePath, fsType, customFS): absent is the nullptr it returns.
\* exists/openOk/allocOk are the answers of the filesystem and of new to
\* the constructor that create runs.
FilesystemProviderFactory_create(fsType, customFSNull, exists, openOk, allocOk, data) ==
    CASE fsType = "LITTLEFS" ->
            [absent |-> FALSE,
             provider |-> LittleFSProvider(exists, openOk, data, "txt", FALSE, "")]
      [] fsType = "GENERIC_FS" ->
            IF ~customFSNull
            THEN [absent |-> FALSE,
                  provider |-> BufferedFileProvider(exists, openOk, allocOk, data,
                                                    FactoryBufferSize, "txt", FALSE, "")]
            ELSE [absent |-> TRUE]
      [] OTHER ->
            IF exists
            THEN [absent |-> FALSE,
                  provider |-> LittleFSProvider(exists, openOk, data, "txt", FALSE, "")]
            ELSE [absent |-> TRUE]

(* ----------------------------- WebServerControl ------------------------ *)
DEFAULT_BUFFER_SIZE == 4096
MAX_BUFFER_SIZE == 8192
MIN_BUFFER_SIZE == 512
DEFAULT_TIMEOUT_MS == 30000

validateBufferSize(bufferSize) ==
    bufferSize >= MIN_BUFFER_SIZE /\ bufferSize <= MAX_BUFFER_SIZE

\* A constructor that keeps the size it is given.
WebServerControl_AsGiven(serverNull, defaultBufferSize, timeoutMs) ==
    [serverNull |-> serverNull,
     defaultBufferSize |-> defaultBufferSize,
     timeoutMs |-> timeoutMs,
     initialized |-> ~serverNull,
     routes |-> << >>]

\* The constructor; routes are the handlers registered with the server.
WebServerControl(serverNull, defaultBufferSize, timeoutMs) ==
    [serverNull |-> serverNull,
     defaultBufferSize |->
        IF ~serverNull /\ ~validateBufferSize(defaultBufferSize)
        THEN DEFAULT_BUFFER_SIZE ELSE defaultBufferSize,
     timeoutMs |-> timeoutMs,
     initialized |-> ~serverNull,
     routes |-> << >>]

isInitialized(self) == self.initialized

\* A handler registered with _server->on(uri, method, ...).
\* progress: the handler captured a progress callback that is not null.
Route(uri, handler, bufferSize, progress) ==
    [uri |-> uri, handler |-> handler, bufferSize |-> bufferSize,
     progress |-> progress]

\* Every method returns [ret |-> the WSCError, self |-> the object after].
\* uri = "" stands for a null or empty uri.
WebServerControl_setDefaultBufferSize(self, bufferSize) ==
    IF ~validateBufferSize(bufferSize)
    THEN [ret |-> "BUFFER_TOO_LARGE", self |-> self]
    ELSE [ret |-> "SUCCESS", self |-> [self EXCEPT !.defaultBufferSize = bufferSize]]

WebServerControl_streamCallback(self, uri, cbNull, bufferSize) ==
    IF ~self.initialized \/ self.serverNull
    THEN [ret |-> "ASYNC_SERVER_ERROR", self |-> self]
    ELSE IF cbNull \/ uri = ""
    THEN [ret |-> "INVALID_PARAMETER", self |-> self]
    ELSE LET actualBufferSize == IF bufferSize = 0 THEN self.defaultBufferSize
                                 ELSE bufferSize
         IN IF ~validateBufferSize(actualBufferSize)
            THEN [ret |-> "BUFFER_TOO_LARGE", self |-> self]
            ELSE [ret |-> "SUCCESS",
                  self |-> [self EXCEPT !.routes =
                              Append(self.routes,
                                     Route(uri, "send500", actualBufferSize, FALSE))]]

\* A variant whose handler captures the buffer size as it was passed, 0
\* included.
WebServerControl_streamFile_AsPassed(self, uri, filePath, exists, bufferSize, progress) ==
    IF ~self.initialized \/ self.serverNull
    THEN [ret |-> "ASYNC_SERVER_ERROR", self |-> self]
    ELSE IF uri = "" \/ filePath = ""
    THEN [ret |-> "INVALID_PARAMETER", self |-> self]
    ELSE IF ~exists
    THEN [ret |-> "FILE_NOT_FOUND", self |-> self]
    ELSE LET actualBufferSize == IF bufferSize = 0 THEN self.defaultBufferSize
                                 ELSE bufferSize
         IN IF ~validateBufferSize(actualBufferSize)
            THEN [ret |-> "BUFFER_TOO_LARGE", self |-> self]
            ELSE [ret |-> "SUCCESS",
                  self |-> [self EXCEPT !.routes =
                              Append(self.routes,
                                     Route(uri, "file", bufferSize, progress))]]

\* A variant that validates the buffer size before it looks for the file.
WebServerControl_streamFile_SizeFirst(self, uri, filePath, exists, bufferSize, progress) ==
    IF ~self.initialized \/ self.serverNull
    THEN [ret |-> "ASYNC_SERVER_ERROR", self |-> self]
    ELSE IF uri = "" \/ filePath = ""
    THEN [ret |-> "INVALID_PARAMETER", self |-> self]
    ELSE LET actualBufferSize == IF bufferSize = 0 THEN self.defaultBufferSize
                                 ELSE bufferSize
         IN IF ~validateBufferSize(actualBufferSize)
            THEN [ret |-> "BUFFER_TOO_LARGE", self |-> self]
            ELSE IF ~exists
            THEN [ret |-> "FILE_NOT_FOUND", self |-> self]
            ELSE [ret |-> "SUCCESS",
                  self |-> [self EXCEPT !.routes =
                              Append(self.routes,
                                     Route(uri, "file", actualBufferSize, progress))]]

WebServerControl_streamFile(self, uri, filePath, exists, bufferSize, progress) ==
    IF ~self.initialized \/ self.serverNull
    THEN [ret |-> "ASYNC_SERVER_ERROR", self |-> self]
    ELSE IF uri = "" \/ filePath = ""
    THEN [ret |-> "INVALID_PARAMETER", self |-> self]
    ELSE IF ~exists
    THEN [ret |-> "FILE_NOT_FOUND", self |-> self]
    ELSE LET actualBufferSize == IF bufferSize = 0 THEN self.defaultBufferSize
                                 ELSE bufferSize
         IN IF ~validateBufferSize(actualBufferSize)
            THEN [ret |-> "BUFFER_TOO_LARGE", self |-> self]
            ELSE [ret |-> "SUCCESS",
                  self |-> [self EXCEPT !.routes =
                              Append(self.routes,
                                     Route(uri, "file", actualBufferSize, progress))]]

\* absent: the unique_ptr is null.
WebServerControl_streamProvider(self, uri, absent, provider, bufferSize) ==
    IF ~self.initialized \/ self.serverNull
    THEN [ret |-> "ASYNC_SERVER_ERROR", self |-> self]
    ELSE IF uri = "" \/ absent \/ ~isReady(provider)
    THEN [ret |-> "INVALID_PARAMETER", self |-> self]
    ELSE LET actualBufferSize == IF bufferSize = 0 THEN self.defaultBufferSize
                                 ELSE bufferSize
         IN IF ~validateBufferSize(actualBufferSize)
            THEN [ret |-> "BUFFER_TOO_LARGE", self |-> self]
            ELSE [ret |-> "PROVIDER_ERROR", self |-> self]

(* -------------------- FaultTolerantStorageProvider -------------------- *)
\* The provider for removable storage (SDProvider).  Its retry state is a
\* counter of reopens bounded by MAX_RETRIES.
MAX_RETRIES == 3

\* How the removable storage answers the calls of one readChunk or reset:
\*   reopenOk  an open of the path succeeds
\*   seekOk    the seek of the call succeeds
\*   reseekOk  the seek after a reopen succeeds
\*   readOk    the read returns the bytes (else none)
\* (reseekOk is asked only after a failed seek and a reopen)
SdEnvs ==
    {e \in [reopenOk : BOOLEAN, seekOk : BOOLEAN, reseekOk : BOOLEAN, readOk : BOOLEAN] :
        (e.seekOk \/ ~e.reopenOk) => e.reseekOk}

OpenIO(ok) == [op |-> "open", arg |-> 0, res |-> IF ok THEN 1 ELSE 0]

\* Construction opens the handle and captures size and MIME type; the
\* provider is not ready if the target is absent or cannot be opened.
FaultTolerantStorageProvider(exists, openOk, data, ext) ==
    IF exists /\ openOk
    THEN [kind |-> "FaultTolerant", file |-> OpenFile(data), totalSize |-> Len(data),
          mimeType |-> getMimeTypeFromExtension(ext, FALSE), isReady |-> TRUE,
          retryCount |-> 0]
    ELSE [kind |-> "FaultTolerant", file |-> [ClosedFile EXCEPT !.data = data],
          totalSize |-> 0, mimeType |-> "", isReady |-> FALSE, retryCount |-> 0]

\* Mutant: only a reopen that succeeds is counted.
FaultTolerantStorageProvider_reopen_SuccessCounted(self, env) ==
    IF self.retryCount >= MAX_RETRIES
    THEN [ok |-> FALSE, self |-> self, io |-> NoIO]
    ELSE IF env.reopenOk
    THEN [ok |-> TRUE,
          self |-> [self EXCEPT !.file = OpenFile(self.file.data),
                                !.retryCount = self.retryCount + 1],
          io |-> << OpenIO(TRUE) >>]
    ELSE [ok |-> FALSE,
          self |-> [self EXCEPT !.file = [ClosedFile EXCEPT !.data = self.file.data]],
          io |-> << OpenIO(FALSE) >>]

\* A reopen: not attempted once the counter would exceed the bound; an
\* attempt increments the counter, and leaves the handle valid at position
\* 0 or invalid.
FaultTolerantStorageProvider_reopen(self, env) ==
    IF self.retryCount >= MAX_RETRIES
    THEN [ok |-> FALSE, self |-> self, io |-> NoIO]
    ELSE IF env.reopenOk
    THEN [ok |-> TRUE,
          self |-> [self EXCEPT !.file = OpenFile(self.file.data),
                                !.retryCount = self.retryCount + 1],
          io |-> << OpenIO(TRUE) >>]
    ELSE [ok |-> FALSE,
          self |-> [self EXCEPT !.file = [ClosedFile EXCEPT !.data = self.file.data],
                                !.retryCount = self.retryCount + 1],
          io |-> << OpenIO(FALSE) >>]

\* Mutant: a read that returns bytes leaves the retry counter as it is.
FaultTolerantStorageProvider_read_CounterKept(self, maxSize, env, io) ==
    LET rd == File_read(self.file, maxSize,
                        [seekOk |-> TRUE, eofSeekOk |-> TRUE,
                         short |-> IF env.readOk THEN 0 ELSE maxSize])
        got == Len(rd.bytes)
    IN Result(rd.bytes, [self EXCEPT !.file = rd.file],
              Append(io, ReadIO(maxSize, got)), NoCalls)

\* The read that ends a readChunk; a read that returns bytes resets the
\* retry counter.
FaultTolerantStorageProvider_read(self, maxSize, env, io) ==
    LET rd == File_read(self.file, maxSize,
                        [seekOk |-> TRUE, eofSeekOk |-> TRUE,
                         short |-> IF env.readOk THEN 0 ELSE maxSize])
        got == Len(rd.bytes)
    IN Result(rd.bytes,
              [self EXCEPT !.file = rd.file,
                           !.retryCount = IF got > 0 THEN 0 ELSE self.retryCount],
              Append(io, ReadIO(maxSize, got)), NoCalls)

\* With a valid handle: seek to the offset if the handle is elsewhere; if
\* the seek fails, one reopen-and-reseek cycle within the budget; then read.
FaultTolerantStorageProvider_seekAndRead(self, maxSize, offset, env, io) ==
    IF self.file.pos = offset
    THEN FaultTolerantStorageProvider_read(self, maxSize, env, io)
    ELSE IF env.seekOk
    THEN FaultTolerantStorageProvider_read([self EXCEPT !.file.pos = offset], maxSize, env,
                                          Append(io, SeekIO(offset, TRUE)))
    ELSE LET io1 == Append(io, SeekIO(offset, FALSE))
             ro == FaultTolerantStorageProvider_reopen(self, env)
         IN IF ~ro.ok THEN Result(<< >>, ro.self, io1 \o ro.io, NoCalls)
            ELSE IF ~env.reseekOk
            THEN Result(<< >>, ro.self,
                        (io1 \o ro.io) \o << SeekIO(offset, FALSE) >>, NoCalls)
            ELSE FaultTolerantStorageProvider_read(
                     [ro.self EXCEPT !.file.pos = offset], maxSize, env,
                     (io1 \o ro.io) \o << SeekIO(offset, TRUE) >>)

\* readChunk: with an invalid handle, a reopen if the budget allows it,
\* else 0; then the seek and the read.
FaultTolerantStorageProvider_readChunk(self, bufNull, maxSize, offset, env) ==
    IF ~self.isReady \/ bufNull \/ offset >= self.totalSize
    THEN Result(<< >>, self, NoIO, NoCalls)
    ELSE IF self.file.open
    THEN FaultTolerantStorageProvider_seekAndRead(self, maxSize, offset, env, NoIO)
    ELSE LET ro == FaultTolerantStorageProvider_reopen(self, env)
         IN IF ~ro.ok THEN Result(<< >>, ro.self, ro.io, NoCalls)
            ELSE FaultTolerantStorageProvider_seekAndRead(ro.self, maxSize, offset,
                                                         env, ro.io)

\* reset rewinds a valid handle to position 0.
FaultTolerantStorageProvider_reset(self, env) ==
    IF self.file.open
    THEN Result(<< >>,
                IF env.seekOk THEN [self EXCEPT !.file.pos = 0] ELSE self,
                << SeekIO(0, env.seekOk) >>, NoCalls)
    ELSE Result(<< >>, self, NoIO, NoCalls)

(* --------------------------- serving a request -------------------------- *)
\* No provider: a null pointer.
NoProvider == [kind |-> "none", isReady |-> FALSE, totalSize |-> 0, mimeType |-> ""]

\* What a request handler leaves behind.  state, code, mime: the response
\* the transport was handed ("error": request->send(code, ...);
\* "streaming": the chunked response was sent; "crashed": the handler
\* faulted before it sent one).  producer: the transport holds a chunk
\* callback.  provider, bufferSize, totalSize, progress: what the chunk
\* callback captured; alive: the provider has not been destroyed;
\* releases: how many times its destructor has run.
Served(state, code, mime, producer, provider, alive, releases, bufferSize, totalSize, progress) ==
    [state |-> state, code |-> code, mime |-> mime, producer |-> producer,
     provider |-> provider, alive |-> alive, releases |-> releases,
     bufferSize |-> bufferSize, totalSize |-> totalSize, progress |-> progress]

\* sendErrorResponse(request, code, message); the handler returns after it,
\* and the unique_ptr it held (present: not null) destroys the provider.
sendErrorResponse(code, provider, present) ==
    Served("error", code, "text/plain", FALSE, provider, FALSE,
           IF present THEN 1 ELSE 0, 0, 0, FALSE)

\* The handler faults: no response is sent and nothing runs after it.
Crashed(provider) ==
    Served("crashed", 0, "", FALSE, provider, FALSE, 0, 0, 0, FALSE)

\* A variant without the test of the provider.
WebServerControl_handleStreamingRequest_Unchecked(absent, provider, bufferSize, progress, headerFault) ==
    IF headerFault THEN Crashed(provider)
    ELSE Served("streaming", 200, getMimeType(provider), TRUE, provider, TRUE, 0,
                bufferSize, getTotalSize(provider), progress)

\* A variant whose chunk callback does not share the ownership of the
\* provider: the provider is destroyed when the call returns.
WebServerControl_handleStreamingRequest_NotShared(absent, provider, bufferSize, progress, headerFault) ==
    IF absent \/ ~isReady(provider)
    THEN sendErrorResponse(500, provider, ~absent)
    ELSE IF headerFault THEN Crashed(provider)
    ELSE Served("streaming", 200, getMimeType(provider), TRUE, provider, FALSE, 1,
                bufferSize, getTotalSize(provider), progress)

\* handleStreamingRequest(request, provider, bufferSize, progressCallback,
\* userData).  absent: the unique_ptr is null.  The Content-Length header is
\* added with the value (const char*)totalSize: the string is read at the
\* address totalSize, which either faults (headerFault) or yields some
\* bytes as the header value.
WebServerControl_handleStreamingRequest(absent, provider, bufferSize, progress, headerFault) ==
    IF absent \/ ~isReady(provider)
    THEN sendErrorResponse(500, provider, ~absent)
    ELSE IF headerFault THEN Crashed(provider)
    ELSE Served("streaming", 200, getMimeType(provider), TRUE, provider, TRUE, 0,
                bufferSize, getTotalSize(provider), progress)

\* What one call of the chunk callback did, in order: the readChunk it made
\* and the progress call it made.
ReadEvent(maxSize, offset, ret) ==
    [ev |-> "readChunk", maxSize |-> maxSize, offset |-> offset, ret |-> ret]
ProgressEvent(transferred, total) ==
    [ev |-> "progress", transferred |-> transferred, total |-> total]

\* The result of the chunk callback: the bytes returned to the transport
\* (out), the provider afterwards, the storage operations and the events
\* of the call, and anything else the transport is told (signal).
Chunk(out, provider, io, events, signal) ==
    [out |-> out, provider |-> provider, io |-> io, events |-> events,
     signal |-> signal]

\* A variant that reports the bytes asked for, not the bytes read.
chunkCallback_report_Requested(c, chunkSize, index, r) ==
    Chunk(r.ret, r.self, r.io,
          << ReadEvent(chunkSize, index, r.ret) >>
          \o (IF c.progress
              THEN << ProgressEvent(index + chunkSize, c.totalSize) >>
              ELSE << >>),
          "none")

\* A variant that reports the size of the chunk as the bytes transferred.
chunkCallback_report_ChunkOnly(c, chunkSize, index, r) ==
    Chunk(r.ret, r.self, r.io,
          << ReadEvent(chunkSize, index, r.ret) >>
          \o (IF c.progress THEN << ProgressEvent(Len(r.ret), c.totalSize) >>
              ELSE << >>),
          "none")

\* A variant that tells the transport of a read that returns nothing short
\* of the total size.
chunkCallback_report_FailureSignalled(c, chunkSize, index, r) ==
    Chunk(r.ret, r.self, r.io,
          << ReadEvent(chunkSize, index, r.ret) >>
          \o (IF c.progress
              THEN << ProgressEvent(index + Len(r.ret), c.totalSize) >>
              ELSE << >>),
          IF Len(r.ret) = 0 /\ index < c.totalSize THEN "error" ELSE "none")

\* The chunk callback from the return of readChunk (r) on: the progress
\* callback, if there is one, and the return of the bytes read.
chunkCallback_report(c, chunkSize, index, r) ==
    Chunk(r.ret, r.self, r.io,
          << ReadEvent(chunkSize, index, r.ret) >>
          \o (IF c.progress
              THEN << ProgressEvent(index + Len(r.ret), c.totalSize) >>
              ELSE << >>),
          "none")

\* A variant that reads maxLen bytes whatever the buffer size is.
chunkCallback_Unclamped(c, maxLen, index, env) ==
    IF c.provider.kind = "none"
    THEN Chunk(<< >>, c.provider, NoIO, << >>, "none")
    ELSE chunkCallback_report(c, maxLen, index,
             ProviderReadChunk(c.provider, FALSE, maxLen, index, env))

\* The chunk callback given to beginChunkedResponse, called by the
\* transport with (buffer, maxLen, index); c is what it captured.
chunkCallback(c, maxLen, index, env) ==
    IF c.provider.kind = "none"
    THEN Chunk(<< >>, c.provider, NoIO, << >>, "none")
    ELSE chunkCallback_report(c, Min(c.bufferSize, maxLen), index,
             ProviderReadChunk(c.provider, FALSE, Min(c.bufferSize, maxLen),
                               index, env))

\* The handler streamCallback registers: it answers every request with 500.
streamCallback_handler(route) == sendErrorResponse(500, NoProvider, FALSE)

\* The handler streamFile registers.  It reaches the filesystem through a
\* reference to the parameter fs of streamFile, which is gone when the
\* handler runs: the pointer read there is the filesystem still (fsRef =
\* "intact") or is not, and the handler faults (fsRef = "fault").
\* exists, openOk, data: the file when the request arrives.
streamFile_handler(route, fsRef, exists, openOk, data, sameAddr, headerFault) ==
    IF fsRef = "fault" THEN Crashed(NoProvider)
    ELSE LET provider == FileContentProvider(exists, openOk, data, "txt", sameAddr, "")
         IN IF ~isReady(provider)
            THEN sendErrorResponse(404, provider, TRUE)
            ELSE WebServerControl_handleStreamingRequest(FALSE, provider,
                     route.bufferSize, route.progress, headerFault)

(* ------------------------------ the state ------------------------------ *)
VARIABLES
    prov,   \* the provider object
    last,   \* the last call made on it and what it returned
    loop,   \* the caller's sequential read loop over it
    sd,     \* a provider for removable storage
    sdCall, \* the last call made on it, and the count of its reopens
    wsc,    \* the WebServerControl object and the routes it registered
    wscCall,\* the last call made on it or on the provider factory
    xfer    \* the request being served and its transfer

vars == << prov, last, loop, sd, sdCall, wsc, wscCall, xfer >>

\* The value of a variable that a specification does not use.
Unused == [kind |-> "unused"]
sdVars == << sd, sdCall >>
wscVars == << wsc, wscCall, xfer >>
provVars == << prov, last, loop >>

\* A call of the chunk callback by the transport: its arguments, what it
\* returned and did, and whether the provider was alive when it was made.
PullRecord(maxLen, index, c, alive) ==
    [made |-> TRUE, maxLen |-> maxLen, index |-> index, out |-> c.out,
     io |-> c.io, events |-> c.events, signal |-> c.signal, alive |-> alive]
NoPull ==
    [made |-> FALSE, maxLen |-> 0, index |-> 0, out |-> << >>, io |-> NoIO,
     events |-> << >>, signal |-> "none", alive |-> TRUE]

\* What the handler of a file route found when the request arrived, and
\* the provider its constructor call made.
Req(fsRef, exists, openOk, headerFault, made) ==
    [fsRef |-> fsRef, exists |-> exists, openOk |-> openOk,
     headerFault |-> headerFault, made |-> made]
NoReq == Req("intact", FALSE, FALSE, FALSE, NoProvider)

\* A request and its transfer: what the handler left behind (s), the route
\* asked for, the bytes returned to the transport so far (sent), whether a
\* call of the chunk callback has returned 0 (ended), and its last call.
Transfer(s, route, req, sent, ended, pull) ==
    [state |-> s.state, code |-> s.code, mime |-> s.mime, producer |-> s.producer,
     provider |-> s.provider, alive |-> s.alive, releases |-> s.releases,
     bufferSize |-> s.bufferSize, totalSize |-> s.totalSize,
     progress |-> s.progress,
     route |-> route, req |-> req, sent |-> sent, ended |-> ended, pull |-> pull]

NoTransfer ==
    Transfer(Served("none", 0, "", FALSE, NoProvider, FALSE, 0, 0, 0, FALSE),
             0, NoReq, 0, FALSE, NoPull)

TextPlain == "text/plain"
Garbage == {"", "?"}          \* values an unassigned _mimeType may hold

\* What the constructors are called with.
MemoryProviders ==
    {MemoryContentProvider(dn, IF dn THEN << >> ELSE Bytes(0, n), n, TextPlain) :
        dn \in BOOLEAN, n \in 0..MaxSize}

Generators(tag, total) ==
    {Generator(tag, lim, b) : lim \in 0..(total + MaxChunk), b \in {1, MaxChunk}}

GeneratorProviders ==
    UNION {{GeneratorContentProvider(gn, g, n, TextPlain) : g \in Generators(0, n)} :
             gn \in BOOLEAN, n \in 0..MaxSize}

CallbackProviders ==
    UNION {{CallbackContentProvider(gn, g, n, TextPlain) : g \in Generators(0, n)} :
             gn \in BOOLEAN, n \in 0..MaxSize}

\* Files of every length, plus one build in which the extension literal
\* shares its address with the path.
FileInputs == {[n |-> n, sameAddr |-> FALSE] : n \in 0..MaxSize}
              \cup {[n |-> 1, sameAddr |-> TRUE]}

FileProviders ==
    {FileContentProvider(ex, op, Bytes(0, f.n), "txt", f.sameAddr, gb) :
        ex \in BOOLEAN, op \in BOOLEAN, f \in FileInputs, gb \in Garbage}

LittleFSProviders ==
    {LittleFSProvider(ex, op, Bytes(0, f.n), "txt", f.sameAddr, gb) :
        ex \in BOOLEAN, op \in BOOLEAN, f \in FileInputs, gb \in Garbage}

BufferedFileProviders ==
    UNION {{BufferedFileProvider(ex, op, al, Bytes(0, f.n), bs, "txt", f.sameAddr, gb) :
               ex \in BOOLEAN, op \in BOOLEAN, al \in BOOLEAN, f \in FileInputs} :
             bs \in 0..MaxBuf, gb \in Garbage}

\* The providers a caller hands to addPart as part number tag: memory
\* regions (a null one too), generators that stop one byte short of their
\* declared size or run one byte over it, files (an absent one too).
PartProviders(tag) ==
    {MemoryContentProvider(dn, IF dn THEN << >> ELSE Bytes(tag, n), n, TextPlain) :
        dn \in BOOLEAN, n \in {0, MaxPartSize - 1, MaxPartSize}}
    \cup {GeneratorContentProvider(TRUE, NullGenerator, MaxPartSize, TextPlain),
          GeneratorContentProvider(FALSE, Generator(tag, 0, MaxChunk), 0, TextPlain),
          GeneratorContentProvider(FALSE, Generator(tag, MaxPartSize - 1, MaxChunk),
                                   MaxPartSize, TextPlain),
          GeneratorContentProvider(FALSE, Generator(tag, MaxPartSize + 1, MaxChunk),
                                   MaxPartSize, TextPlain)}
    \cup {LittleFSProvider(ex, TRUE, Bytes(tag, n), "txt", FALSE, "") :
            ex \in BOOLEAN, n \in {0, MaxPartSize}}

\* Whether a call on p can reach a storage handle.
HasStorage(p) ==
    IF p.kind = "MultiPart"
    THEN \E i \in 1..Len(p.parts) : p.parts[i].provider.kind = "LittleFS"
    ELSE p.kind \in {"File", "LittleFS", "BufferedFile"}

NoStorageEnv == [seekOk |-> TRUE, eofSeekOk |-> TRUE, short |-> 0]
EnvsFor(p) == IF HasStorage(p) THEN Envs ELSE {NoStorageEnv}

\* The record of a call: its arguments (arg: the provider given to addPart),
\* the object before it (pre), what it returned (ret, ok) and what it did.
NoArg == [absent |-> TRUE]
Call(op, bufNull, maxSize, offset, r, pre, ok, arg) ==
    [op |-> op, bufNull |-> bufNull, maxSize |-> maxSize, offset |-> offset,
     ret |-> r.ret, io |-> r.io, calls |-> r.calls, pre |-> pre, ok |-> ok,
     arg |-> arg]

NoResult(p) == Result(<< >>, p, NoIO, NoCalls)

\* The storage did its part in the operations io: every seek succeeded and
\* every read that asked for at least one byte got at least one.
StorageFed(io) ==
    \A k \in 1..Len(io) :
       /\ io[k].op = "seek" => io[k].res = 1
       /\ (io[k].op = "read" /\ io[k].arg >= 1) => io[k].res >= 1

\* calls: the iterations that returned data; fed: the storage did its part
\* in every iteration.
LoopIdle == [active |-> FALSE, done |-> FALSE, offset |-> 0, sum |-> 0,
             clean |-> TRUE, calls |-> 0, fed |-> TRUE]

Init ==
    /\ \/ prov \in MemoryProviders
       \/ prov \in GeneratorProviders
       \/ prov \in CallbackProviders
       \/ prov \in FileProviders
       \/ prov \in LittleFSProviders
       \/ prov \in BufferedFileProviders
       \/ prov = MultiPartContentProvider(OctetStream)
    /\ last = Call("construct", FALSE, 0, 0, NoResult(prov), prov, TRUE, NoArg)
    /\ loop = LoopIdle
    /\ sd = Unused /\ sdCall = Unused
    /\ wsc = Unused /\ wscCall = Unused /\ xfer = Unused

(* ----------------------------- the actions ----------------------------- *)
\* The caller makes its next call once it has taken the result of the
\* previous one (Discard).
Idle == last.op \in {"construct", "idle"} /\ ~loop.active

\* provider->readChunk(buffer, maxSize, offset), any arguments
ReadChunk(bufNull, maxSize, offset, env) ==
    LET r == ProviderReadChunk(prov, bufNull, maxSize, offset, env)
    IN /\ Idle
       /\ prov' = r.self
       /\ last' = Call("readChunk", bufNull, maxSize, offset, r, prov, TRUE, NoArg)
       /\ UNCHANGED << loop, sdVars, wscVars >>

\* provider->reset()
Reset(env) ==
    LET r == ProviderReset(prov, env)
    IN /\ Idle
       /\ prov' = r.self
       /\ last' = Call("reset", FALSE, 0, 0, r, prov, TRUE, NoArg)
       /\ UNCHANGED << loop, sdVars, wscVars >>

\* multiProvider->addPart(...); at most MaxParts parts are accepted.
AddPart(absent, provider) ==
    /\ prov.kind = "MultiPart"
    /\ Idle
    /\ Len(prov.parts) < MaxParts \/ absent \/ ~isReady(provider)
    /\ LET r == MultiPartContentProvider_addPart(prov, absent, provider)
       IN /\ prov' = r.self
          /\ last' = Call("addPart", FALSE, 0, 0, NoResult(prov), prov, r.ok,
                           IF absent THEN NoArg
                           ELSE [absent |-> FALSE, provider |-> provider])
    /\ UNCHANGED << loop, sdVars, wscVars >>

\* The caller is done with the result of the last call.
Discard ==
    /\ last.op \notin {"construct", "idle"}
    /\ ~loop.active
    /\ last' = Call("idle", FALSE, 0, 0, NoResult(prov), prov, TRUE, NoArg)
    /\ UNCHANGED << prov, loop, sdVars, wscVars >>

\* The caller starts reading the content from offset 0; until the loop is
\* over it makes no other call on the provider.
LoopStart ==
    /\ isReady(prov)
    /\ Idle
    /\ loop' = [LoopIdle EXCEPT !.active = TRUE]
    /\ UNCHANGED << prov, last, sdVars, wscVars >>

\* One iteration: read at the current offset, stop at the first 0, else
\* advance by the bytes returned.  clean: the storage answered every seek
\* and read of the loop in full.
LoopStep(maxSize, env) ==
    /\ loop.active /\ ~loop.done
    /\ LET r == ProviderReadChunk(prov, FALSE, maxSize, loop.offset, env)
           n == Len(r.ret)
       IN /\ prov' = r.self
          /\ last' = Call("readChunk", FALSE, maxSize, loop.offset, r, prov, TRUE, NoArg)
          /\ loop' = [loop EXCEPT
                        !.done = (n = 0),
                        !.offset = loop.offset + n,
                        !.sum = loop.sum + n,
                        !.clean = loop.clean /\ (r.io = NoIO \/ Healthy(env)),
                        !.calls = loop.calls + (IF n > 0 THEN 1 ELSE 0),
                        !.fed = loop.fed /\ StorageFed(r.io)]
    /\ UNCHANGED << sdVars, wscVars >>

\* The caller drops a finished loop.
LoopEnd ==
    /\ loop.active /\ loop.done
    /\ loop' = LoopIdle
    /\ last' = Call("idle", FALSE, 0, 0, NoResult(prov), prov, TRUE, NoArg)
    /\ UNCHANGED << prov, sdVars, wscVars >>

Offsets == IF prov.kind = "MultiPart" THEN 0..MaxPartOffset ELSE 0..MaxOffset

Next ==
    \/ \E bufNull \in BOOLEAN, maxSize \in 0..MaxChunk, offset \in Offsets, env \in EnvsFor(prov) :
          ReadChunk(bufNull, maxSize, offset, env)
    \/ \E env \in EnvsFor(prov) : Reset(env)
    \/ \E absent \in BOOLEAN :
          \E provider \in PartProviders(IF prov.kind = "MultiPart"
                                        THEN Len(prov.parts) + 1 ELSE 1) :
             AddPart(absent, provider)
    \/ Discard
    \/ LoopStart
    \/ \E maxSize \in 1..MaxChunk, env \in EnvsFor(prov) : LoopStep(maxSize, env)
    \/ LoopEnd

Spec == Init /\ [][Next]_vars


(* --------------- the removable-storage provider in use ------------------ *)
MaxReopens == 5     \* reopens of one provider that are followed up

FaultTolerantProviders ==
    {FaultTolerantStorageProvider(ex, op, Bytes(0, n), "txt") :
        ex \in BOOLEAN, op \in BOOLEAN, n \in 0..MaxSize}

\* The reopens among the storage calls of one call.
Reopens(io) == SelectSeq(io, LAMBDA c : c.op = "open")

RECURSIVE FailedRun(_, _)
\* The number of reopens that failed in a row, after the reopens of io.
FailedRun(run, io) ==
    IF io = << >> THEN run
    ELSE FailedRun(IF io[1].op # "open" THEN run
                   ELSE IF io[1].res = 0 THEN run + 1 ELSE 0,
                   Tail(io))

\* The record of a call on the provider; failedBefore/failedRun: reopens
\* failed in a row before and after it; reopens: all reopens so far.
SdCall(op, bufNull, maxSize, offset, r, pre, env) ==
    [op |-> op, bufNull |-> bufNull, maxSize |-> maxSize, offset |-> offset,
     ret |-> r.ret, io |-> r.io, pre |-> pre, env |-> env,
     failedBefore |-> IF op = "construct" THEN 0 ELSE sdCall.failedRun,
     failedRun |-> FailedRun(IF op = "construct" THEN 0 ELSE sdCall.failedRun, r.io),
     reopens |-> (IF op = "construct" THEN 0 ELSE sdCall.reopens) + Len(Reopens(r.io))]

SdQuiet == [reopenOk |-> TRUE, seekOk |-> TRUE, reseekOk |-> TRUE, readOk |-> TRUE]

FaultInit ==
    /\ sd \in FaultTolerantProviders
    /\ sdCall = SdCall("construct", FALSE, 0, 0, NoResult(sd), sd, SdQuiet)
    /\ prov = Unused /\ last = Unused /\ loop = Unused
    /\ wsc = Unused /\ wscCall = Unused /\ xfer = Unused

\* The caller makes its next call once it has taken the result of the
\* previous one (SdDiscard).
SdIdle == sdCall.op \in {"construct", "idle"}

\* provider->readChunk(buffer, maxSize, offset) on the removable storage
SdReadChunk(bufNull, maxSize, offset, env) ==
    LET r == FaultTolerantStorageProvider_readChunk(sd, bufNull, maxSize, offset, env)
    IN /\ SdIdle
       /\ sdCall.reopens < MaxReopens
       /\ sd' = r.self
       /\ sdCall' = SdCall("readChunk", bufNull, maxSize, offset, r, sd, env)
       /\ UNCHANGED << provVars, wscVars >>

\* provider->reset()
SdReset(env) ==
    LET r == FaultTolerantStorageProvider_reset(sd, env)
    IN /\ SdIdle
       /\ sd' = r.self
       /\ sdCall' = SdCall("reset", FALSE, 0, 0, r, sd, env)
       /\ UNCHANGED << provVars, wscVars >>

\* The caller is done with the result of the last call.
SdDiscard ==
    /\ ~SdIdle
    /\ sdCall' = SdCall("idle", FALSE, 0, 0, NoResult(sd), sd, SdQuiet)
    /\ UNCHANGED << sd, provVars, wscVars >>

FaultNext ==
    \/ \E bufNull \in BOOLEAN, maxSize \in 0..MaxChunk, offset \in 0..MaxOffset,
          env \in SdEnvs : SdReadChunk(bufNull, maxSize, offset, env)
    \/ \E seekOk \in BOOLEAN : SdReset([SdQuiet EXCEPT !.seekOk = seekOk])
    \/ SdDiscard

FaultSpec == FaultInit /\ [][FaultNext]_vars


(* --------------------- the driver and the factory in use ---------------- *)
MaxRoutes == 2      \* most routes registered with one server

\* The buffer sizes callers pass: 0, and the values at and next to the limits.
BufferSizes == {0, MIN_BUFFER_SIZE - 1, MIN_BUFFER_SIZE, DEFAULT_BUFFER_SIZE,
                MAX_BUFFER_SIZE, MAX_BUFFER_SIZE + 1}
Uris == {"", "/data"}
FsTypes == {"AUTO_DETECT", "LITTLEFS", "GENERIC_FS"}

\* The providers handed to streamProvider: a ready one, and one that is not.
StreamedProviders ==
    {MemoryContentProvider(FALSE, Bytes(0, MaxSize), MaxSize, TextPlain),
     MemoryContentProvider(TRUE, << >>, MaxSize, TextPlain)}

\* The record of a call: the arguments (args), the WSCError returned (ret),
\* the object before (pre) and, for create, the pointer returned (made).
WscCall(op, args, ret, pre, made) ==
    [op |-> op, args |-> args, ret |-> ret, pre |-> pre, made |-> made]

NoMade == [absent |-> TRUE]

DriverInit ==
    /\ \E serverNull \in BOOLEAN, n \in BufferSizes :
          /\ wsc = WebServerControl(serverNull, n, DEFAULT_TIMEOUT_MS)
          /\ wscCall = WscCall("construct",
                                [serverNull |-> serverNull, bufferSize |-> n],
                                "SUCCESS", wsc, NoMade)
    /\ xfer = NoTransfer
    /\ prov = Unused /\ last = Unused /\ loop = Unused
    /\ sd = Unused /\ sdCall = Unused

\* The caller makes its next call once it has taken the result of the
\* previous one (WscDiscard).
WscIdle == wscCall.op \in {"construct", "idle"}

SetDefaultBufferSize(bufferSize) ==
    LET r == WebServerControl_setDefaultBufferSize(wsc, bufferSize)
    IN /\ WscIdle
       /\ wsc' = r.self
       /\ wscCall' = WscCall("setDefaultBufferSize", [bufferSize |-> bufferSize],
                              r.ret, wsc, NoMade)
       /\ UNCHANGED << provVars, sdVars, xfer >>

StreamCallback(uri, cbNull, bufferSize) ==
    LET r == WebServerControl_streamCallback(wsc, uri, cbNull, bufferSize)
    IN /\ WscIdle
       /\ Len(wsc.routes) < MaxRoutes
       /\ wsc' = r.self
       /\ wscCall' = WscCall("streamCallback",
                              [uri |-> uri, cbNull |-> cbNull, bufferSize |-> bufferSize],
                              r.ret, wsc, NoMade)
       /\ UNCHANGED << provVars, sdVars, xfer >>

StreamFile(uri, filePath, exists, bufferSize, progress) ==
    LET r == WebServerControl_streamFile(wsc, uri, filePath, exists, bufferSize,
                                         progress)
    IN /\ WscIdle
       /\ Len(wsc.routes) < MaxRoutes
       /\ wsc' = r.self
       /\ wscCall' = WscCall("streamFile",
                              [uri |-> uri, filePath |-> filePath, exists |-> exists,
                               bufferSize |-> bufferSize, progress |-> progress],
                              r.ret, wsc, NoMade)
       /\ UNCHANGED << provVars, sdVars, xfer >>

StreamProvider(uri, absent, provider, bufferSize) ==
    LET r == WebServerControl_streamProvider(wsc, uri, absent, provider, bufferSize)
    IN /\ WscIdle
       /\ Len(wsc.routes) < MaxRoutes
       /\ wsc' = r.self
       /\ wscCall' = WscCall("streamProvider",
                              [uri |-> uri, absent |-> absent,
                               ready |-> ~absent /\ isReady(provider),
                               bufferSize |-> bufferSize],
                              r.ret, wsc, NoMade)
       /\ UNCHANGED << provVars, sdVars, xfer >>

\* FilesystemProviderFactory::create(filePath, fsType, customFS)
Create(fsType, customFSNull, exists, openOk, allocOk, n) ==
    LET made == FilesystemProviderFactory_create(fsType, customFSNull, exists, openOk,
                                                 allocOk, Bytes(0, n))
    IN /\ WscIdle
       /\ xfer.state = "none"
       /\ wscCall' = WscCall("create",
                              [fsType |-> fsType, customFSNull |-> customFSNull,
                               exists |-> exists, openOk |-> openOk,
                               allocOk |-> allocOk],
                              "SUCCESS", wsc, made)
       /\ UNCHANGED << wsc, provVars, sdVars, xfer >>

\* The caller is done with the result of the last call.
WscDiscard ==
    /\ ~WscIdle
    /\ wscCall' = WscCall("idle", [bufferSize |-> 0], "SUCCESS", wsc, NoMade)
    /\ UNCHANGED << wsc, provVars, sdVars, xfer >>

DriverNext ==
    \/ \E bufferSize \in BufferSizes : SetDefaultBufferSize(bufferSize)
    \/ \E uri \in Uris, cbNull \in BOOLEAN, bufferSize \in BufferSizes :
          StreamCallback(uri, cbNull, bufferSize)
    \/ \E uri \in Uris, filePath \in {"", "/f.txt"}, exists \in BOOLEAN,
          bufferSize \in BufferSizes, progress \in BOOLEAN :
          StreamFile(uri, filePath, exists, bufferSize, progress)
    \/ \E uri \in Uris, absent \in BOOLEAN, provider \in StreamedProviders,
          bufferSize \in BufferSizes : StreamProvider(uri, absent, provider, bufferSize)
    \/ \E fsType \in FsTypes, customFSNull \in BOOLEAN, exists \in BOOLEAN,
          openOk \in BOOLEAN, allocOk \in BOOLEAN, n \in {0, MaxSize} :
          Create(fsType, customFSNull, exists, openOk, allocOk, n)
    \/ WscDiscard

DriverSpec == DriverInit /\ [][DriverNext]_vars

(* ------------------------- requests and transfers ----------------------- *)
\* The room the transport offers the chunk callback: small, and more than
\* any buffer size.
PullSizes == {1, MaxChunk, MAX_BUFFER_SIZE + 1}

\* A server with a file route and a callback route, registered with the
\* default buffer size or one of their own, with and without progress
\* callback.
TransferInit ==
    /\ \E n \in {MIN_BUFFER_SIZE, DEFAULT_BUFFER_SIZE},
          bufferSize \in {0, MAX_BUFFER_SIZE}, progress \in BOOLEAN :
          LET w0 == WebServerControl(FALSE, n, DEFAULT_TIMEOUT_MS)
              w1 == WebServerControl_streamFile(w0, "/data", "/f.txt", TRUE,
                                                bufferSize, progress).self
              w2 == WebServerControl_streamCallback(w1, "/gen", FALSE,
                                                    bufferSize).self
          IN wsc = w2
    /\ wscCall = WscCall("idle", [bufferSize |-> 0], "SUCCESS", wsc, NoMade)
    /\ xfer = NoTransfer
    /\ prov = Unused /\ last = Unused /\ loop = Unused
    /\ sd = Unused /\ sdCall = Unused

\* The transport takes one request at a time to a handler.
Settled == xfer.state \in {"none", "error", "released"}

\* A request for a route registered by streamFile arrives.
RequestFile(i, fsRef, exists, openOk, n, sameAddr, headerFault) ==
    /\ WscIdle /\ Settled
    /\ i \in 1..Len(wsc.routes) /\ wsc.routes[i].handler = "file"
    /\ LET s == streamFile_handler(wsc.routes[i], fsRef, exists, openOk,
                                   Bytes(0, n), sameAddr, headerFault)
           made == IF fsRef = "fault" THEN NoProvider
                   ELSE FileContentProvider(exists, openOk, Bytes(0, n), "txt",
                                            sameAddr, "")
       IN xfer' = Transfer(s, i, Req(fsRef, exists, openOk, headerFault, made),
                           0, FALSE, NoPull)
    /\ UNCHANGED << wsc, wscCall, provVars, sdVars >>

\* A request for a route registered by streamCallback arrives.
RequestCallback(i) ==
    /\ WscIdle /\ Settled
    /\ i \in 1..Len(wsc.routes) /\ wsc.routes[i].handler = "send500"
    /\ xfer' = Transfer(streamCallback_handler(wsc.routes[i]), i, NoReq, 0, FALSE,
                        NoPull)
    /\ UNCHANGED << wsc, wscCall, provVars, sdVars >>

\* The transfer x after the call of the chunk callback that returned c.
Pulled(x, maxLen, c) ==
    [x EXCEPT !.provider = c.provider,
              !.sent = @ + Len(c.out),
              !.ended = (Len(c.out) = 0),
              !.pull = PullRecord(maxLen, x.sent, c, x.alive)]

\* The transport asks for the next chunk: index is the count of the bytes
\* it was given so far.
Pull(maxLen, env) ==
    /\ WscIdle
    /\ xfer.state = "streaming" /\ ~xfer.ended
    /\ xfer' = Pulled(xfer, maxLen, chunkCallback(xfer, maxLen, xfer.sent, env))
    /\ UNCHANGED << wsc, wscCall, provVars, sdVars >>

\* The transport destroys the response, and with it the chunk callback and
\* the shared pointer it captured: the last owner gone, the provider is
\* destroyed and closes its file.
Release(x) ==
    [x EXCEPT !.state = "released", !.producer = FALSE, !.alive = FALSE,
              !.releases = @ + 1, !.provider.file.open = FALSE]

\* ... once a call of the chunk callback has returned 0,
Finish ==
    /\ WscIdle
    /\ xfer.state = "streaming" /\ xfer.ended
    /\ xfer' = Release(xfer)
    /\ UNCHANGED << wsc, wscCall, provVars, sdVars >>

\* ... or before, when the connection is torn down.
Teardown ==
    /\ WscIdle
    /\ xfer.state = "streaming" /\ ~xfer.ended
    /\ xfer' = Release(xfer)
    /\ UNCHANGED << wsc, wscCall, provVars, sdVars >>

TransferNext ==
    \/ \E i \in 1..MaxRoutes, fsRef \in {"intact", "fault"}, exists \in BOOLEAN,
          openOk \in BOOLEAN, n \in {0, 1, MaxSize}, sameAddr \in BOOLEAN,
          headerFault \in BOOLEAN :
          RequestFile(i, fsRef, exists, openOk, n, sameAddr, headerFault)
    \/ \E i \in 1..MaxRoutes : RequestCallback(i)
    \/ \E maxLen \in PullSizes, env \in Envs : Pull(maxLen, env)
    \/ Finish
    \/ Teardown
    \/ \E fsType \in FsTypes, customFSNull \in BOOLEAN, exists \in BOOLEAN,
          openOk \in BOOLEAN, allocOk \in BOOLEAN, n \in {0, MaxSize} :
          Create(fsType, customFSNull, exists, openOk, allocOk, n)
    \/ WscDiscard

TransferSpec == TransferInit /\ [][TransferNext]_vars

\* The transport keeps asking for chunks while the connection stands and
\* destroys the response of a transfer that has ended.
FairTransferSpec ==
    /\ TransferSpec
    /\ WF_vars(\E maxLen \in PullSizes, env \in Envs : Pull(maxLen, env))
    /\ WF_vars(Finish)

(* ------------------------------ the claims ----------------------------- *)
n_last == Len(last.ret)     \* the size_t the last readChunk returned

IsRead == last.op = "readChunk"

\* No generator or callback function decides what the provider returns.
NoGenerator(p) ==
    IF p.kind = "MultiPart"
    THEN \A i \in 1..Len(p.parts) : p.parts[i].provider.kind # "Generator"
    ELSE p.kind \notin {"Generator", "Callback"}

\* A buffered provider has a cache of at least one byte.
CacheUsable(p) == p.kind = "BufferedFile" => p.bufferSize >= 1

LoopOver == loop.active /\ loop.done

\* C1 as stated: for every ready provider the sequential read loop (from
\* offset 0, advancing by the bytes returned, stopping at the first 0)
\* returns getTotalSize() bytes in total.
C1_Original == LoopOver => loop.sum = getTotalSize(prov)

\* C1, amended: for every ready Memory provider, plain-file provider,
\* BufferedFile provider with a cache of at least one byte, and MultiPart
\* provider whose parts are such providers, the sequential read loop made
\* with maxSize >= 1, during which the storage answers every seek and read
\* in full, returns getTotalSize() bytes in total.
C1_SequentialTotal ==
    (LoopOver /\ loop.clean /\ NoGenerator(prov) /\ CacheUsable(prov))
        => loop.sum = getTotalSize(prov)

\* A loop over a buffered file longer than the cache has ended: the content
\* was delivered over several refills.
C1_Witness ==
    /\ LoopOver /\ loop.clean
    /\ prov.kind = "BufferedFile"
    /\ prov.bufferSize >= 1
    /\ prov.bufferSize < loop.sum
    /\ loop.sum = getTotalSize(prov)

\* C2: every readChunk returns n <= maxSize bytes, and the bytes it
\* delivers end at or before getTotalSize() (offset + n <= getTotalSize()).
C2_Claim ==
    IsRead => /\ n_last <= last.maxSize
              /\ n_last > 0 => last.offset + n_last <= getTotalSize(last.pre)

\* C3: readChunk with offset >= getTotalSize() or a null buffer returns 0,
\* issues no seek or read on the storage handle, invokes no generator or
\* callback, and leaves the object (file position, cache window) as it was.
C3_Claim ==
    (IsRead /\ (last.bufNull \/ last.offset >= getTotalSize(last.pre)))
        => /\ n_last = 0
           /\ last.io = NoIO
           /\ last.calls = NoCalls
           /\ prov = last.pre

\* C4: on a provider that is not ready, getTotalSize() is 0, getMimeType()
\* is empty, readChunk returns 0 and reset() changes nothing.
C4_Claim ==
    ~isReady(prov)
        => /\ getTotalSize(prov) = 0
           /\ getMimeType(prov) = ""
           /\ IsRead => n_last = 0
           /\ last.op \in {"readChunk", "reset"} => (prov = last.pre /\ last.io = NoIO)

\* The content of a provider, independent of how it is read: whether it
\* has a byte at position pos (from 0), and which.
LeafHasByte(p, pos) ==
    CASE p.kind = "Memory" -> ~p.dataNull /\ pos < Len(p.data)
      [] p.kind \in {"Generator", "Callback"} -> ~p.genNull /\ pos < p.generator.limit
      [] OTHER -> pos < Len(p.file.data)

LeafByteAt(p, pos) ==
    CASE p.kind = "Memory" -> p.data[pos + 1]
      [] p.kind \in {"Generator", "Callback"} -> 100 * p.generator.tag + pos + 1
      [] OTHER -> p.file.data[pos + 1]

Covers(part, pos) == pos >= part.startOffset /\ pos < part.startOffset + part.size

HasByte(p, pos) ==
    IF p.kind = "MultiPart"
    THEN \E i \in 1..Len(p.parts) :
            /\ Covers(p.parts[i], pos)
            /\ LeafHasByte(p.parts[i].provider, pos - p.parts[i].startOffset)
    ELSE LeafHasByte(p, pos)

ByteAt(p, pos) ==
    IF p.kind = "MultiPart"
    THEN LET i == CHOOSE j \in 1..Len(p.parts) : Covers(p.parts[j], pos)
         IN LeafByteAt(p.parts[i].provider, pos - p.parts[i].startOffset)
    ELSE LeafByteAt(p, pos)

\* What seeking the file to offset and reading maxSize bytes returns.
DirectRead(data, maxSize, offset) ==
    IF offset >= Len(data) THEN << >>
    ELSE Slice(data, offset, Min(maxSize, Len(data) - offset))

IsPrefix(a, b) == Len(a) <= Len(b) /\ \A k \in 1..Len(a) : a[k] = b[k]

C6_NoSpan ==
    (IsRead /\ last.pre.kind = "MultiPart") =>
        \A i \in 1..Len(last.pre.parts) :
            Covers(last.pre.parts[i], last.offset) =>
                /\ n_last <= last.pre.parts[i].startOffset + last.pre.parts[i].size
                             - last.offset
                /\ \A k \in 1..n_last : last.ret[k] \div 100 = i

\* A read near the end of the first part, with room for more in maxSize and
\* a non-empty part behind it, returns the remainder of the first part.
C6_Witness ==
    /\ IsRead /\ last.pre.kind = "MultiPart"
    /\ Len(last.pre.parts) >= 2
    /\ last.pre.parts[2].size > 0
    /\ Covers(last.pre.parts[1], last.offset)
    /\ last.maxSize > last.pre.parts[1].size - last.offset
    /\ n_last = last.pre.parts[1].size - last.offset
    /\ n_last > 0

RECURSIVE SumSizes(_)
SumSizes(parts) ==
    IF parts = << >> THEN 0 ELSE parts[1].size + SumSizes(Tail(parts))

\* C7: the parts of a MultiPart provider are contiguous in append order:
\* the first starts at 0, each next one starts where the previous one ends,
\* and getTotalSize() is the sum of the sizes.
C7_Contiguous ==
    prov.kind = "MultiPart" =>
        /\ Len(prov.parts) > 0 => prov.parts[1].startOffset = 0
        /\ \A i \in 1..(Len(prov.parts) - 1) :
              prov.parts[i + 1].startOffset
                  = prov.parts[i].startOffset + prov.parts[i].size
        /\ getTotalSize(prov) = SumSizes(prov.parts)

\* Two non-empty parts are in place and an addPart has just been rejected.
C7_Witness ==
    /\ prov.kind = "MultiPart"
    /\ Len(prov.parts) >= 2
    /\ prov.parts[1].size > 0 /\ prov.parts[2].size > 0
    /\ last.op = "addPart" /\ ~last.ok

\* C8: addPart returns false exactly for an absent or not-ready provider and
\* then leaves the parts and getTotalSize() as they were; otherwise it
\* returns true and appends one part, which starts at the previous total
\* and has the size the sub-provider reports.
C8_AddPart ==
    last.op = "addPart" =>
        /\ last.ok <=> (~last.arg.absent /\ isReady(last.arg.provider))
        /\ ~last.ok => prov = last.pre
        /\ last.ok =>
              /\ prov.parts = Append(last.pre.parts,
                                     ContentPart(last.arg.provider,
                                                 getTotalSize(last.pre),
                                                 getTotalSize(last.arg.provider)))
              /\ getTotalSize(prov)
                    = getTotalSize(last.pre) + getTotalSize(last.arg.provider)

\* A provider that is present but not ready has been rejected by a
\* composite that already had a part.
C8_Witness ==
    /\ last.op = "addPart" /\ ~last.ok
    /\ ~last.arg.absent
    /\ Len(prov.parts) >= 1

\* C9: once a provider is ready, no later operation (readChunk, reset,
\* addPart) changes what getTotalSize() returns.
C9_Claim ==
    isReady(last.pre) => getTotalSize(prov) = getTotalSize(last.pre)

\* The delegations to parts among the calls of the last operation.
PartCalls == SelectSeq(last.calls, LAMBDA c : c.callee >= 1)

\* C10: a MultiPart readChunk with a buffer and offset < getTotalSize()
\* reads exactly one part, the only part whose range contains offset, at
\* offset - startOffset with size limit min(maxSize, size - local offset);
\* it returns what that part returned and touches no other part.
C10_Delegation ==
    (IsRead /\ last.pre.kind = "MultiPart" /\ ~last.bufNull
       /\ last.offset < getTotalSize(last.pre)) =>
        \E i \in 1..Len(last.pre.parts) :
            LET part == last.pre.parts[i]
                local == last.offset - part.startOffset
            IN /\ Covers(part, last.offset)
               /\ \A j \in 1..Len(last.pre.parts) :
                     Covers(last.pre.parts[j], last.offset) => j = i
               /\ PartCalls = << PartCall(i, Min(last.maxSize, part.size - local),
                                          local, last.ret) >>
               /\ \A j \in 1..Len(last.pre.parts) :
                     j # i => prov.parts[j] = last.pre.parts[j]

\* A read inside the second part, past its first byte, that delivers bytes.
C10_Witness ==
    /\ IsRead /\ last.pre.kind = "MultiPart" /\ ~last.bufNull
    /\ Len(last.pre.parts) >= 2
    /\ last.offset > last.pre.parts[2].startOffset
    /\ Covers(last.pre.parts[2], last.offset)
    /\ n_last > 0

(* --------------------- the cache of BufferedFileProvider --------------- *)
\* A readChunk on a ready buffered provider that passes the argument tests.
IsBufferedRead ==
    /\ IsRead /\ last.pre.kind = "BufferedFile"
    /\ isReady(last.pre) /\ ~last.bufNull
    /\ last.offset < getTotalSize(last.pre)

\* offset lies in the cache window [bufferOffset, bufferOffset+bufferDataSize)
InWindow(p, offset) ==
    offset >= p.bufferOffset /\ offset < p.bufferOffset + p.bufferDataSize

\* The storage failed the call: its seek failed or its refill read got 0 bytes.
SeekFailed == Len(last.io) >= 1 /\ last.io[1].op = "seek" /\ last.io[1].res = 0
RefillEmpty == Len(last.io) = 2 /\ last.io[2].op = "read" /\ last.io[2].res = 0

\* C11: a readChunk of a buffered provider at an offset inside the cache
\* window issues no seek and no read on the storage; at an offset outside
\* it, the call issues one seek, to that offset, and - unless the seek fails,
\* when nothing is served - one refill read of the cache capacity after it,
\* and nothing more; bytes are served only after both.
C11_CacheWindow ==
    IsBufferedRead =>
        IF InWindow(last.pre, last.offset)
        THEN last.io = NoIO
        ELSE /\ Len(last.io) \in {1, 2}
             /\ last.io[1].op = "seek" /\ last.io[1].arg = last.offset
             /\ (Len(last.io) = 2) <=> (last.io[1].res = 1)
             /\ Len(last.io) = 2 =>
                    /\ last.io[2].op = "read"
                    /\ last.io[2].arg = last.pre.bufferSize
             /\ n_last > 0 => (Len(last.io) = 2 /\ n_last <= last.io[2].res)

\* A read inside the window, past its first byte, is served without storage
\* calls.
C11_Witness ==
    /\ IsBufferedRead
    /\ InWindow(last.pre, last.offset)
    /\ last.offset > last.pre.bufferOffset
    /\ n_last > 0
    /\ last.io = NoIO

\* C12: a readChunk of a buffered provider that fails because the seek
\* failed or because the refill read returned 0 bytes returns 0 and leaves
\* the cache window (bufferOffset, bufferDataSize), when it held bytes
\* before the call, as it was.
C12_Claim ==
    (IsBufferedRead /\ last.pre.bufferDataSize > 0 /\ (SeekFailed \/ RefillEmpty)) =>
        /\ n_last = 0
        /\ prov.bufferOffset = last.pre.bufferOffset
        /\ prov.bufferDataSize = last.pre.bufferDataSize

\* C13: the bytes in the cache never exceed its capacity, and every byte a
\* readChunk serves is the byte of the cache at index offset - bufferOffset
\* (+ its position in the chunk), an index inside the filled window.
C13_WindowBounds ==
    prov.kind = "BufferedFile" =>
        /\ prov.bufferDataSize <= prov.bufferSize
        /\ IsBufferedRead =>
              LET bufferIndex == last.offset - prov.bufferOffset
              IN \A k \in 1..n_last :
                    /\ bufferIndex >= 0
                    /\ bufferIndex + k <= prov.bufferDataSize
                    /\ last.ret[k] = prov.buffer[bufferIndex + k]
                    /\ last.ret[k] # Uninit

\* A refill has filled the cache only in part (the file ends inside it),
\* and the read was asked for more bytes than the window holds.
C13_Witness ==
    /\ IsBufferedRead
    /\ Len(last.io) = 2
    /\ prov.bufferDataSize < prov.bufferSize
    /\ last.maxSize > prov.bufferDataSize
    /\ n_last > 0

(* --------------------------------- reset ------------------------------- *)
\* The object as its constructor left it: the handle at position 0, the
\* cache unwritten with an empty window at 0, the end-of-data flag clear.
LeafAsConstructed(p) ==
    CASE p.kind \in {"File", "LittleFS"} -> [p EXCEPT !.file.pos = 0]
      [] p.kind = "BufferedFile" ->
            [p EXCEPT !.file.pos = 0, !.bufferOffset = 0, !.bufferDataSize = 0,
                      !.eof = FALSE,
                      !.buffer = [i \in 1..Len(p.buffer) |-> Uninit]]
      [] OTHER -> p

AsConstructed(p) ==
    IF p.kind = "MultiPart"
    THEN [p EXCEPT !.parts = [i \in 1..Len(p.parts) |->
                                [p.parts[i] EXCEPT
                                   !.provider = LeafAsConstructed(p.parts[i].provider)]]]
    ELSE LeafAsConstructed(p)

\* The cursor and the cache of a provider are where construction put them.
LeafAtStart(p) ==
    /\ p.kind \in {"File", "LittleFS", "BufferedFile"} => p.file.pos = 0
    /\ p.kind = "BufferedFile" =>
          (p.bufferOffset = 0 /\ p.bufferDataSize = 0 /\ ~p.eof)

AtStart(p) ==
    IF p.kind = "MultiPart"
    THEN \A i \in 1..Len(p.parts) : LeafAtStart(p.parts[i].provider)
    ELSE LeafAtStart(p)

\* Every seek the last call issued on the storage succeeded.
SeeksOk == \A k \in 1..Len(last.io) : last.io[k].op = "seek" => last.io[k].res = 1

\* What reset() is claimed to restore.
Restored ==
    /\ getTotalSize(prov) = getTotalSize(last.pre)
    /\ getMimeType(prov) = getMimeType(last.pre)
    /\ AtStart(prov)
    /\ \A maxSize \in 0..MaxChunk, offset \in Offsets, env \in EnvsFor(prov) :
          ProviderReadChunk(prov, FALSE, maxSize, offset, env).ret
             = ProviderReadChunk(AsConstructed(prov), FALSE, maxSize, offset, env).ret

IsSdRead == sdCall.op = "readChunk"

FirstFailedSeek(io) ==
    IF \E k \in 1..Len(io) : io[k].op = "seek" /\ io[k].res = 0
    THEN CHOOSE k \in 1..Len(io) :
            /\ io[k].op = "seek" /\ io[k].res = 0
            /\ \A j \in 1..(k - 1) : ~(io[j].op = "seek" /\ io[j].res = 0)
    ELSE 0

C17_Claim ==
    (wscCall.op = "create" /\ ~wscCall.made.absent) =>
        /\ isReady(wscCall.made.provider)
        /\ wscCall.args.exists

InRange(n) == n >= MIN_BUFFER_SIZE /\ n <= MAX_BUFFER_SIZE

\* C18: setDefaultBufferSize(n) returns BUFFER_TOO_SMALL for n < 512 and
\* BUFFER_TOO_LARGE for n > 8192, leaving the default as it was; for
\* 512 <= n <= 8192 it returns SUCCESS and n is the default afterwards.
C18_Claim ==
    wscCall.op = "setDefaultBufferSize" =>
        LET n == wscCall.args.bufferSize
        IN /\ n < MIN_BUFFER_SIZE =>
                 (wscCall.ret = "BUFFER_TOO_SMALL" /\ wsc = wscCall.pre)
           /\ n > MAX_BUFFER_SIZE =>
                 (wscCall.ret = "BUFFER_TOO_LARGE" /\ wsc = wscCall.pre)
           /\ InRange(n) =>
                 (wscCall.ret = "SUCCESS" /\ wsc.defaultBufferSize = n)

\* C19: a buffer size outside [512, 8192] given to the constructor, to
\* setDefaultBufferSize or to a stream* registration (where 0 asks for the
\* default) is answered with a failure signal: isInitialized() is false
\* after the constructor, the other calls return an error code.
C19_Claim ==
    /\ (wscCall.op = "construct" /\ ~InRange(wscCall.args.bufferSize))
          => ~isInitialized(wsc)
    /\ (wscCall.op = "setDefaultBufferSize" /\ ~InRange(wscCall.args.bufferSize))
          => wscCall.ret # "SUCCESS"
    /\ (wscCall.op \in {"streamCallback", "streamFile", "streamProvider"}
         /\ wscCall.args.bufferSize # 0 /\ ~InRange(wscCall.args.bufferSize))
          => wscCall.ret # "SUCCESS"

\* C20: streamProvider returns SUCCESS, and has registered a route, exactly
\* when the driver is initialized, the uri is not empty, the provider is
\* present and ready and the buffer size (0: the default) is in range.
C20_Claim ==
    wscCall.op = "streamProvider" =>
        LET pre == wscCall.pre
            size == IF wscCall.args.bufferSize = 0 THEN pre.defaultBufferSize
                    ELSE wscCall.args.bufferSize
            fine == /\ isInitialized(pre) /\ wscCall.args.uri # ""
                    /\ wscCall.args.ready /\ InRange(size)
        IN /\ (wscCall.ret = "SUCCESS") <=> fine
           /\ fine => Len(wsc.routes) = Len(pre.routes) + 1

\* The sizes readChunk returns to a caller that reads a memory region from
\* `offset` on with the same maxSize, advancing by the bytes returned and
\* stopping at the first 0.
RECURSIVE ChunkSizes(_, _, _)
ChunkSizes(p, maxSize, offset) ==
    LET r == MemoryContentProvider_readChunk(p, FALSE, maxSize, offset)
    IN IF Len(r.ret) = 0 THEN << 0 >>
       ELSE << Len(r.ret) >> \o ChunkSizes(r.self, maxSize, offset + Len(r.ret))

\* C26: readChunk of a ready MemoryContentProvider, with a buffer and an
\* offset below the total size, returns exactly min(maxSize, total - offset)
\* bytes, and they are data[offset .. offset + n); a region of 20 bytes read
\* sequentially with maxSize 7 gives chunks of 7, 7, 6 and 0 bytes.
C26_MemoryExact ==
    /\ (/\ IsRead /\ last.pre.kind = "Memory" /\ isReady(last.pre)
        /\ ~last.bufNull /\ last.offset < getTotalSize(last.pre))
          => /\ n_last = Min(last.maxSize, getTotalSize(last.pre) - last.offset)
             /\ \A i \in 1..n_last : last.ret[i] = last.pre.data[last.offset + i]
    /\ ChunkSizes(MemoryContentProvider(FALSE, Bytes(0, 20), 20, TextPlain), 7, 0)
          = << 7, 7, 6, 0 >>

\* A read in the middle of the region that the remaining bytes cut short.
C26_Witness ==
    /\ IsRead /\ last.pre.kind = "Memory" /\ isReady(last.pre) /\ ~last.bufNull
    /\ last.offset > 0 /\ last.offset < getTotalSize(last.pre)
    /\ last.maxSize > getTotalSize(last.pre) - last.offset
    /\ n_last = getTotalSize(last.pre) - last.offset

IsGeneratorRead ==
    /\ IsRead /\ last.pre.kind \in {"Generator", "Callback"}
    /\ isReady(last.pre) /\ ~last.bufNull

\* The call hands the function (maxSize, offset) as received and returns
\* its result as is; the provider object is left as it was.
PassedThrough ==
    /\ last.ret = Generate(last.pre.generator, last.maxSize, last.offset)
    /\ last.calls = << GenCall(last.maxSize, last.offset, last.ret) >>
    /\ prov = last.pre

\* C27 as stated: readChunk of a ready generator-backed provider, with a
\* buffer, returns exactly what the generator function returns for
\* (buffer, maxSize, offset), at every offset: the declared total size is
\* used only for reporting.
C27_Original == IsGeneratorRead => PassedThrough

\* C27, amended: readChunk of a ready generator-backed provider, with a
\* buffer, returns exactly what the generator function returns for
\* (buffer, maxSize, offset), calling it once and keeping no cursor of its
\* own, at every offset below the declared total size; a generator that
\* returns 0 there ends the stream short of the declared total.  At an
\* offset at or past the declared total GeneratorContentProvider returns 0
\* without calling the generator, while CallbackContentProvider still
\* calls it.
C27_PassThrough ==
    /\ (IsGeneratorRead /\ last.offset < getTotalSize(last.pre)) => PassedThrough
    /\ (IsGeneratorRead /\ last.offset >= getTotalSize(last.pre)) =>
          IF last.pre.kind = "Generator"
          THEN last.ret = << >> /\ last.calls = << >> /\ prov = last.pre
          ELSE PassedThrough

\* A generator that returns 0 short of the declared total, asked there.
C27_Witness ==
    /\ IsGeneratorRead /\ last.pre.kind = "Generator"
    /\ last.offset > 0 /\ last.offset < getTotalSize(last.pre)
    /\ last.maxSize > 0
    /\ Len(last.calls) = 1 /\ n_last = 0

(* ------------------------- requests and transfers ---------------------- *)
\* The route the request being served asked for.
Asked == wsc.routes[xfer.route]
Answered == xfer.state # "none"

\* C21: once streamCallback has returned SUCCESS for a route, every request
\* to that route starts a chunked transfer whose chunks the registered
\* callback produces, and is never answered with an error response.
C21_Claim ==
    (Answered /\ Asked.handler = "send500") =>
        /\ xfer.state = "streaming" /\ xfer.producer
        /\ xfer.provider.kind = "Callback"
        /\ xfer.code = 200

\* The handler of a file route ran and made its provider.
FileServed == Answered /\ Asked.handler = "file" /\ xfer.req.fsRef = "intact"

\* C22: a transfer never starts on an absent or not-ready provider: the
\* request handler of streamFile, and handleStreamingRequest, answer with an
\* error response, hand the transport no chunk callback and never call
\* readChunk.
C22_NoTransferUnready ==
    /\ (FileServed /\ ~isReady(xfer.req.made)) =>
          /\ xfer.state = "error" /\ xfer.code \in {404, 500}
          /\ ~xfer.producer /\ ~xfer.pull.made /\ xfer.sent = 0
    /\ FileServed =>
          \A absent \in BOOLEAN, headerFault \in BOOLEAN :
             (absent \/ ~isReady(xfer.req.made)) =>
                LET s == WebServerControl_handleStreamingRequest(absent,
                             xfer.req.made, Asked.bufferSize, Asked.progress,
                             headerFault)
                IN s.state = "error" /\ s.code = 500 /\ ~s.producer
    /\ (xfer.producer \/ xfer.pull.made) => (FileServed /\ isReady(xfer.req.made))

\* The file was there when the route was registered and cannot be opened
\* when the request arrives.
C22_Witness ==
    /\ FileServed /\ xfer.req.exists /\ ~xfer.req.openOk
    /\ xfer.state = "error" /\ xfer.code = 404

IsReadEvent(e) == e.ev = "readChunk"
IsProgressEvent(e) == e.ev = "progress"

\* C23: on every call of the chunk callback with (maxLen, index) the driver
\* calls readChunk of the provider exactly once, at offset index and with
\* size min(buffer size of the route, maxLen), and returns its result
\* unchanged; the bytes returned never exceed that minimum.
C23_OneClampedRead ==
    xfer.pull.made =>
        LET p == xfer.pull
            size == Min(xfer.bufferSize, p.maxLen)
            reads == SelectSeq(p.events, IsReadEvent)
        IN /\ Len(reads) = 1
           /\ reads[1].maxSize = size /\ reads[1].offset = p.index
           /\ p.out = reads[1].ret
           /\ Len(p.out) <= size

\* The transport offers more room than the buffer size, past the start of
\* the file, and bytes are returned.
C23_Witness ==
    /\ xfer.pull.made /\ xfer.pull.maxLen > xfer.bufferSize
    /\ xfer.pull.index > 0 /\ Len(xfer.pull.out) > 0

\* C24: when the route has a progress callback, every call of the chunk
\* callback calls it exactly once, after the read, with (transferred,
\* total): transferred is the count of all bytes returned to the transport
\* so far in this transfer, total is getTotalSize() as it was when the
\* transfer began; when the route has none, nothing is called.
C24_ProgressReport ==
    xfer.pull.made =>
        LET p == xfer.pull
            progs == SelectSeq(p.events, IsProgressEvent)
        IN IF xfer.progress
           THEN /\ Len(progs) = 1
                /\ Len(p.events) = 2
                /\ IsReadEvent(p.events[1]) /\ IsProgressEvent(p.events[2])
                /\ progs[1].transferred = xfer.sent
                /\ progs[1].total = getTotalSize(xfer.req.made)
           ELSE progs = << >>

\* A later chunk of a transfer with a progress callback.
C24_Witness ==
    /\ xfer.pull.made /\ xfer.progress
    /\ xfer.pull.index > 0 /\ Len(xfer.pull.out) > 0
    /\ xfer.sent < xfer.totalSize

Streaming == xfer.state = "streaming"
Released == xfer.state = "released"

\* C25: the provider of a transfer is alive at every call of the chunk
\* callback, all of which are made after the call that began the transfer
\* has returned, and is released exactly once: after the read that returns
\* 0 or when the transport tears the transfer down; readChunk is never
\* called on a released provider, and every transfer begun leads to the
\* release of its provider.
C25_Lifetime ==
    /\ [](/\ xfer.pull.made => xfer.pull.alive
          /\ Streaming => (xfer.alive /\ xfer.releases = 0)
          /\ Released => (/\ ~xfer.alive /\ xfer.releases = 1
                          /\ ~xfer.provider.file.open)
          /\ xfer.releases <= 1)
    /\ Streaming ~> (Released /\ xfer.releases = 1)

\* A transfer of several chunks that ended with a read of 0 and whose
\* provider has been released.
C25_Witness ==
    /\ Released /\ xfer.ended /\ xfer.pull.made /\ xfer.pull.index > 0
    /\ xfer.releases = 1

\* The last call of the chunk callback met a failure: a seek the storage
\* refused, or a read that gave nothing short of the total size.
PullFailed ==
    /\ xfer.pull.made
    /\ \E i \in DOMAIN xfer.pull.io :
          \/ xfer.pull.io[i].op = "seek" /\ xfer.pull.io[i].res = 0
          \/ /\ xfer.pull.io[i].op = "read" /\ xfer.pull.io[i].res = 0
             /\ xfer.pull.index < xfer.totalSize

\* The last call of the chunk callback was made at the end of the content.
PullAtEnd ==
    /\ xfer.pull.made /\ ~PullFailed
    /\ xfer.pull.index >= xfer.totalSize

\* What the transport sees of a call of the chunk callback: the count it
\* returns, anything else it is told, and the status of the response.
Observed == [n |-> Len(xfer.pull.out), signal |-> xfer.pull.signal,
             code |-> xfer.code, ended |-> xfer.ended]
EndObserved == [n |-> 0, signal |-> "none", code |-> 200, ended |-> TRUE]

\* C28: a failure in the middle of a transfer is reported by the chunk
\* callback as the return value 0 and nothing else, which is what the
\* transport sees at the normal end of the content: no error code, error
\* response or other signal is produced once a transfer has started.
C28_FailureAsEnd ==
    /\ PullFailed => Observed = EndObserved
    /\ PullAtEnd => Observed = EndObserved
    /\ xfer.pull.made => (xfer.pull.signal = "none" /\ xfer.code = 200)

\* The storage gives nothing in the middle of the file.
C28_Witness ==
    /\ PullFailed /\ xfer.pull.index > 0 /\ xfer.pull.index < xfer.totalSize
    /\ Observed = EndObserved

(* --------------------------- registration errors ------------------------ *)
IsRegistration == wscCall.op \in {"streamCallback", "streamFile", "streamProvider"}

\* A parameter the call needs is missing: the uri, the path of streamFile,
\* the callback of streamCallback.
MissingParameter ==
    \/ wscCall.args.uri = ""
    \/ wscCall.op = "streamFile" /\ wscCall.args.filePath = ""
    \/ wscCall.op = "streamCallback" /\ wscCall.args.cbNull

\* The buffer size the registration would use.
ActualBufferSize ==
    IF wscCall.args.bufferSize = 0 THEN wscCall.pre.defaultBufferSize
    ELSE wscCall.args.bufferSize

CapturedMimeTypes == {OctetStream, "text/html", "text/plain"}

\* p is what a constructor made of a file that was there or not (exists),
\* could be opened or not (openOk), with the cache allocated or not.
StorageBuilt(p, exists, openOk, allocOk) ==
    /\ isReady(p) <=> (exists /\ openOk /\ (p.kind = "BufferedFile" => allocOk))
    /\ isReady(p) => /\ p.file.open
                     /\ getTotalSize(p) = Len(p.file.data)
                     /\ getMimeType(p) \in CapturedMimeTypes
    /\ ~isReady(p) => ~p.file.open

\* C30: a storage-backed provider (FileContentProvider, LittleFSProvider,
\* BufferedFileProvider) is ready after construction exactly when the file
\* existed, the open succeeded and, for the buffered one, the cache was
\* allocated; when ready, getTotalSize() is the size of the file and a MIME
\* type has been captured; when not ready, no storage handle is left open.
C30_StorageReady ==
    /\ FileServed =>
          StorageBuilt(xfer.req.made, xfer.req.exists, xfer.req.openOk, TRUE)
    /\ (wscCall.op = "create" /\ ~wscCall.made.absent) =>
          StorageBuilt(wscCall.made.provider, wscCall.args.exists,
                       wscCall.args.openOk, wscCall.args.allocOk)

\* The file was opened and the cache could not be allocated.
C30_Witness ==
    /\ wscCall.op = "create" /\ ~wscCall.made.absent
    /\ wscCall.made.provider.kind = "BufferedFile"
    /\ wscCall.args.exists /\ wscCall.args.openOk /\ ~wscCall.args.allocOk
    /\ ~isReady(wscCall.made.provider) /\ ~wscCall.made.provider.file.open

(* ------------------------------- progress ------------------------------ *)
\* Memory, BufferedFile, and MultiPart made of Memory parts.
Progressing(p) ==
    IF p.kind = "MultiPart"
    THEN \A i \in 1..Len(p.parts) : p.parts[i].provider.kind = "Memory"
    ELSE p.kind \in {"Memory", "BufferedFile"}

\* A read that the claim says returns data.
MustProgress ==
    /\ IsRead /\ Progressing(last.pre) /\ isReady(last.pre) /\ ~last.bufNull
    /\ last.maxSize >= 1 /\ last.offset < getTotalSize(last.pre)
    /\ StorageFed(last.io)

\* C31 as stated: for a ready Memory, MultiPart (of such parts) or
\* BufferedFile provider whose storage seeks succeed and whose storage reads
\* return at least one byte before end of file, every readChunk with
\* maxSize >= 1 and offset < getTotalSize() returns at least 1 byte, and the
\* sequential read loop ends after at most getTotalSize() calls that return
\* data and one call that returns 0.
C31_Original ==
    /\ MustProgress => n_last >= 1
    /\ (loop.active /\ loop.fed /\ Progressing(prov)) =>
          /\ loop.calls <= getTotalSize(prov)
          /\ loop.done => loop.sum = getTotalSize(prov)

\* C31, amended: the same for a BufferedFile provider whose cache holds at
\* least one byte; a BufferedFile provider made with a cache of 0 bytes is
\* ready and returns 0 at every offset.
C31_Progress ==
    /\ (MustProgress /\ CacheUsable(last.pre)) => n_last >= 1
    /\ (MustProgress /\ ~CacheUsable(last.pre)) => n_last = 0
    /\ (loop.active /\ loop.fed /\ Progressing(prov) /\ CacheUsable(prov)) =>
          /\ loop.calls <= getTotalSize(prov)
          /\ loop.done => loop.sum = getTotalSize(prov)

\* A loop over a buffered file ended although the storage returned fewer
\* bytes than asked for in one of its reads.
C31_Witness ==
    /\ LoopOver /\ loop.fed /\ ~loop.clean
    /\ prov.kind = "BufferedFile" /\ CacheUsable(prov)
    /\ loop.calls >= 2 /\ loop.sum = getTotalSize(prov)


(* ------------------------ the default buffer size ----------------------- *)
\* C32: an initialized driver's default buffer size lies in
\* [MIN_BUFFER_SIZE, MAX_BUFFER_SIZE] after the constructor and any sequence
\* of setDefaultBufferSize calls, and a rejected setDefaultBufferSize leaves
\* the default buffer size and the timeout as they were.
C32_DefaultInRange ==
    /\ isInitialized(wsc) => InRange(wsc.defaultBufferSize)
    /\ (wscCall.op = "setDefaultBufferSize" /\ wscCall.ret # "SUCCESS") =>
          /\ wsc.defaultBufferSize = wscCall.pre.defaultBufferSize
          /\ wsc.timeoutMs = wscCall.pre.timeoutMs

\* C32 happens: an initialized driver whose default was set to the lower
\* limit by an earlier call has just rejected a size above the upper limit.
C32_Witness ==
    /\ isInitialized(wsc)
    /\ wscCall.op = "setDefaultBufferSize" /\ wscCall.ret # "SUCCESS"
    /\ wscCall.args.bufferSize > MAX_BUFFER_SIZE
    /\ wsc.defaultBufferSize = MIN_BUFFER_SIZE


(* --------------------- two requests for one file route ------------------ *)
\* A variant that keeps one provider for the route: every request is handed
\* the object made for the first.
make_unique_RouteWide(heap) == 1

\* std::make_unique<FileContentProvider>(*fs, filePath) in the handler of a
\* file route: the address of the object constructed, which is the address
\* of no object made before (heap: the objects made so far, by address).
make_unique(heap) == Len(heap) + 1

Requests == 1..2
Other(k) == 3 - k

\* One of the two requests: its transfer (x), the address held by the
\* shared pointer of its chunk callback (ptr), the provider and the bytes
\* that the same calls leave and return when the request is the only one
\* (solo, soloOut), and whether a call of its chunk callback followed one
\* of the other request (mixed) or the release of the other's provider
\* (afterRelease).
Slot(x, ptr, solo, soloOut, mixed, afterRelease) ==
    [x |-> x, ptr |-> ptr, solo |-> solo, soloOut |-> soloOut, mixed |-> mixed,
     afterRelease |-> afterRelease]

NoSlot == Slot(NoTransfer, 0, NoProvider, << >>, FALSE, FALSE)

\* A server with one file route registered with the default buffer size;
\* the file has len bytes.  down: a handler has faulted.
ConcurrentInit ==
    /\ \E progress \in BOOLEAN :
          wsc = WebServerControl_streamFile(
                    WebServerControl(FALSE, DEFAULT_BUFFER_SIZE, DEFAULT_TIMEOUT_MS),
                    "/data", "/f.txt", TRUE, 0, progress).self
    /\ wscCall = WscCall("idle", [bufferSize |-> 0], "SUCCESS", wsc, NoMade)
    /\ xfer = [kind |-> "pair", len |-> MaxSize, heap |-> << >>,
               t |-> [k \in Requests |-> NoSlot], lastActor |-> 0,
               down |-> FALSE]
    /\ prov = Unused /\ last = Unused /\ loop = Unused
    /\ sd = Unused /\ sdCall = Unused

\* The transfer of request k with the provider its shared pointer points
\* to, and with the provider it has when it is the only request.
Mine(k) == [xfer.t[k].x EXCEPT !.provider = xfer.heap[xfer.t[k].ptr]]
Alone(k) == [xfer.t[k].x EXCEPT !.provider = xfer.t[k].solo]

\* Request k for the route arrives and its handler runs.
Arrive(k, fsRef, openOk, sameAddr, headerFault) ==
    /\ ~xfer.down
    /\ xfer.t[k].x.state = "none"
    /\ LET s == streamFile_handler(wsc.routes[1], fsRef, TRUE, openOk,
                                   Bytes(0, xfer.len), sameAddr, headerFault)
           a == make_unique(xfer.heap)
       IN xfer' = [xfer EXCEPT
                     !.heap = IF a > Len(xfer.heap) THEN Append(@, s.provider) ELSE @,
                     !.down = (s.state = "crashed"),
                     !.lastActor = k,
                     !.t[k] = Slot(Transfer(s, 1,
                                            Req(fsRef, TRUE, openOk, headerFault,
                                                s.provider),
                                            0, FALSE, NoPull),
                                   a, s.provider, << >>, FALSE, FALSE)]
    /\ UNCHANGED << wsc, wscCall, provVars, sdVars >>

\* The state after the chunk callback of request k returned c, where s is
\* what it returns to a request that is the only one.
PairPulled(k, maxLen, c, s) ==
    [xfer EXCEPT
       !.heap[xfer.t[k].ptr] = c.provider,
       !.lastActor = k,
       !.t[k] = [@ EXCEPT
                   !.x = Pulled(Mine(k), maxLen, c),
                   !.solo = s.provider,
                   !.soloOut = s.out,
                   !.mixed = @ \/ (xfer.lastActor = Other(k)
                                   /\ xfer.t[Other(k)].x.pull.made),
                   !.afterRelease = @ \/ xfer.t[Other(k)].x.state = "released"]]

\* The transport asks request k's chunk callback for the next chunk.
PairPull(k, maxLen, env) ==
    /\ ~xfer.down
    /\ xfer.t[k].x.state = "streaming" /\ ~xfer.t[k].x.ended
    /\ xfer' = PairPulled(k, maxLen,
                          chunkCallback(Mine(k), maxLen, xfer.t[k].x.sent, env),
                          chunkCallback(Alone(k), maxLen, xfer.t[k].x.sent, env))
    /\ UNCHANGED << wsc, wscCall, provVars, sdVars >>

\* The transport destroys the response of request k, at the end of its
\* transfer or before: the provider its shared pointer holds is destroyed.
PairRelease(k) ==
    /\ ~xfer.down
    /\ xfer.t[k].x.state = "streaming"
    /\ xfer' = [xfer EXCEPT
                  !.heap[xfer.t[k].ptr] = Release(Mine(k)).provider,
                  !.lastActor = k,
                  !.t[k].x = Release(Mine(k))]
    /\ UNCHANGED << wsc, wscCall, provVars, sdVars >>

\* The storage answers in full, fails a seek, or reads one byte short.
PairEnvs == {e \in Envs : e.eofSeekOk = e.seekOk \/ e.short = 1}

ConcurrentNext ==
    \/ \E k \in Requests, fsRef \in {"intact", "fault"}, openOk \in BOOLEAN,
          sameAddr \in BOOLEAN, headerFault \in BOOLEAN :
          Arrive(k, fsRef, openOk, sameAddr, headerFault)
    \/ \E k \in Requests, maxLen \in {1, MAX_BUFFER_SIZE + 1}, env \in PairEnvs :
          PairPull(k, maxLen, env)
    \/ \E k \in Requests : PairRelease(k)

ConcurrentSpec == ConcurrentInit /\ [][ConcurrentNext]_vars

UnderWay(k) == xfer.t[k].x.state = "streaming"

\* C33: two transfers of one streamFile route whose chunk callbacks are
\* called in any interleaving do not interfere: the two requests hold
\* different provider objects, every call of a request's chunk callback
\* returns the bytes it returns when the request is the only one, and the
\* provider of a request under way, its file handle and cursor included,
\* is as the request's own calls left it, whether or not the provider of
\* the other request has been released.
C33_Independent ==
    /\ (UnderWay(1) /\ UnderWay(2)) => xfer.t[1].ptr # xfer.t[2].ptr
    /\ \A k \in Requests :
          /\ xfer.t[k].x.pull.made => xfer.t[k].x.pull.out = xfer.t[k].soloOut
          /\ UnderWay(k) => /\ xfer.heap[xfer.t[k].ptr] = xfer.t[k].solo
                             /\ xfer.t[k].x.alive

\* C33 happens: the calls of the two chunk callbacks alternated, the first
\* request's provider was released, and the second request, still under
\* way, has since been given bytes from the middle of the file.
C33_Witness ==
    /\ xfer.t[1].x.state = "released" /\ xfer.t[1].mixed
    /\ UnderWay(2) /\ xfer.t[2].mixed /\ xfer.t[2].afterRelease
    /\ xfer.t[2].x.pull.index > 0
    /\ Len(xfer.t[2].x.pull.out) > 0


(* ----------------------- chunks and cache windows ----------------------- *)
\* The call was served from the cache: its offset was in the window, or the
\* refill it made put bytes into the cache.
ServedFromCache ==
    /\ IsBufferedRead
    /\ \/ InWindow(last.pre, last.offset)
       \/ (Len(last.io) = 2 /\ last.io[2].res > 0)

\* C34: a readChunk of a buffered provider that is served from the cache
\* returns min(maxSize, bufferOffset + bufferDataSize - offset) bytes: it
\* stops at the end of the current window and makes no refill for the rest
\* of maxSize (no storage call at all when the offset was in the window, one
\* refill read otherwise), so a chunk never holds bytes of two refills; a
\* chunk cut short by the window ends where the window ends, and the caller
\* gets the rest by calling again at the advanced offset, which lies
\* outside the window.
C34_WindowStop ==
    ServedFromCache =>
        LET windowEnd == prov.bufferOffset + prov.bufferDataSize
        IN /\ n_last = Min(last.maxSize, windowEnd - last.offset)
           /\ InWindow(last.pre, last.offset) =>
                 /\ last.io = NoIO
                 /\ prov.bufferOffset = last.pre.bufferOffset
                 /\ prov.bufferDataSize = last.pre.bufferDataSize
           /\ ~InWindow(last.pre, last.offset) =>
                 /\ Len(last.io) = 2
                 /\ prov.bufferOffset = last.offset
           /\ n_last < last.maxSize =>
                 /\ last.offset + n_last = windowEnd
                 /\ ~InWindow(prov, last.offset + n_last)

\* C34 happens: a read inside the window, asked for more bytes than the
\* window has left while the file goes on, returned the one byte left and
\* made no storage call.
C34_Witness ==
    /\ ServedFromCache
    /\ InWindow(last.pre, last.offset)
    /\ last.io = NoIO
    /\ n_last = 1 /\ last.maxSize > 1
    /\ last.offset + n_last < getTotalSize(prov)


(* ----------------------- the effective buffer size ---------------------- *)
\* The buffer size a registration call works with: the default of the
\* driver at the time of the call when 0 is passed, the size passed otherwise.
Effective == IF wscCall.args.bufferSize = 0 THEN wscCall.pre.defaultBufferSize
             ELSE wscCall.args.bufferSize

\* The call got as far as the test of the buffer size.
PassedToSize == wscCall.ret \notin {"ASYNC_SERVER_ERROR", "INVALID_PARAMETER",
                                    "FILE_NOT_FOUND"}

\* C35: in streamFile, streamCallback and streamProvider a buffer size of 0
\* stands for the default of the driver at the time of the call and any
\* other size is taken as given; that effective size is what the bounds
\* test is applied to and what the route registered by the call holds; and
\* a later setDefaultBufferSize leaves the routes registered before it, and
\* so their buffer sizes, as they were.
C35_EffectiveSize ==
    /\ (IsRegistration /\ PassedToSize) =>
          /\ (wscCall.ret = "BUFFER_TOO_LARGE") <=> ~InRange(Effective)
          /\ wscCall.ret = "SUCCESS" =>
                /\ Len(wsc.routes) = Len(wscCall.pre.routes) + 1
                /\ wsc.routes[Len(wsc.routes)].bufferSize = Effective
    /\ wscCall.op = "setDefaultBufferSize" => wsc.routes = wscCall.pre.routes
    /\ \A i \in 1..Len(wsc.routes) : InRange(wsc.routes[i].bufferSize)

\* C35 happens: after a route was registered and the default was lowered, a
\* second route registered with size 0 holds the new default and the first
\* route's size is still what it was.
C35_Witness ==
    /\ wscCall.op = "streamFile" /\ wscCall.ret = "SUCCESS"
    /\ wscCall.args.bufferSize = 0
    /\ wscCall.pre.defaultBufferSize = MIN_BUFFER_SIZE
    /\ Len(wsc.routes) = 2
    /\ wsc.routes[1].bufferSize = DEFAULT_BUFFER_SIZE
    /\ wsc.routes[2].bufferSize = MIN_BUFFER_SIZE


(* ------------------------ zero-length memory regions -------------------- *)
\* A memory provider is ready exactly when it has a data pointer and a size
\* above 0.
ReadyIffData(p) == isReady(p) <=> (~p.dataNull /\ p.totalSize > 0)

\* No transfer starts from provider p: streamProvider on an initialized
\* driver refuses it and registers nothing, and a request handler that is
\* handed it answers with an error and leaves no chunk callback.
StartsNoTransfer(p) ==
    LET w == WebServerControl(FALSE, DEFAULT_BUFFER_SIZE, DEFAULT_TIMEOUT_MS)
        r == WebServerControl_streamProvider(w, "/data", FALSE, p, 0)
        s == WebServerControl_handleStreamingRequest(FALSE, p, DEFAULT_BUFFER_SIZE,
                                                     FALSE, FALSE)
    IN /\ r.ret = "INVALID_PARAMETER" /\ r.self = w
       /\ s.state = "error" /\ ~s.producer

\* C36: a memory provider is ready iff its data pointer is not null and its
\* size is above 0; so a zero-length memory region is never accepted by
\* addPart, which returns false and leaves the composite as it was, is
\* never a part of a composite, and never starts a transfer.
C36_ZeroLength ==
    /\ prov.kind = "Memory" =>
          /\ ReadyIffData(prov)
          /\ prov.totalSize = 0 => StartsNoTransfer(prov)
    /\ prov.kind = "MultiPart" =>
          \A i \in 1..Len(prov.parts) :
             prov.parts[i].provider.kind = "Memory" => prov.parts[i].size > 0
    /\ (last.op = "addPart" /\ ~last.arg.absent
         /\ last.arg.provider.kind = "Memory") =>
          /\ ReadyIffData(last.arg.provider)
          /\ last.arg.provider.totalSize = 0 =>
                /\ ~last.ok
                /\ prov = last.pre
                /\ StartsNoTransfer(last.arg.provider)

\* C36 happens: a composite that has a part was handed a memory region of
\* length 0 with a data pointer, and refused it.
C36_Witness ==
    /\ last.op = "addPart" /\ ~last.ok
    /\ ~last.arg.absent
    /\ last.arg.provider.kind = "Memory"
    /\ ~last.arg.provider.dataNull
    /\ last.arg.provider.totalSize = 0
    /\ Len(prov.parts) >= 1


(* ------------------------- the progress reports ------------------------- *)
\* The last call of the chunk callback made a progress report; the values
\* it passed.
HasReport == xfer.pull.made /\ xfer.progress
Reported == xfer.pull.events[2]

\* The last call is the read that returns 0 at the end of the content.
EndOfContent ==
    /\ xfer.pull.made
    /\ Len(xfer.pull.out) = 0
    /\ xfer.pull.index = xfer.totalSize

ReportBounded ==
    HasReport =>
        /\ Reported.total = xfer.totalSize
        /\ Reported.transferred <= Reported.total
        /\ EndOfContent => Reported.transferred = Reported.total

ReportGrows ==
    (HasReport /\ HasReport') => Reported'.transferred >= Reported.transferred

\* C37: over the calls of one transfer, made at sequential offsets, the
\* transferred value passed to the progress callback never decreases and
\* never exceeds the total, and the last call of a transfer that reaches
\* the end of its content (the read that returns 0 there) reports
\* transferred = total.
C37_ProgressMonotone == []ReportBounded /\ [][ReportGrows]_vars

\* C37 happens: after calls that returned bytes, the read at the end of a
\* file of several bytes returned 0 and reported the total.
C37_Witness ==
    /\ HasReport /\ EndOfContent
    /\ xfer.totalSize > 1
    /\ Reported.transferred = xfer.totalSize


(* ----------------------- CompressedContentProvider ---------------------- *)
\* The wrapper around a source provider (absent: the unique_ptr is null).
\* It takes the MIME type of a ready source at construction.
CompressedContentProvider(absent, sourceProvider) ==
    [kind |-> "Compressed", sourceAbsent |-> absent,
     sourceProvider |-> sourceProvider,
     mimeType |-> IF ~absent /\ isReady(sourceProvider)
                  THEN getMimeType(sourceProvider) ELSE "",
     isReady |-> ~absent /\ isReady(sourceProvider)]

\* The wrapper after a call it passed on to its source, which returned r.
CompressedContentProvider_pass(self, r) ==
    Result(r.ret, [self EXCEPT !.sourceProvider = r.self], r.io, r.calls)

CompressedContentProvider_readChunk(self, bufNull, maxSize, offset, env) ==
    IF ~self.isReady \/ self.sourceAbsent
    THEN Result(<< >>, self, NoIO, NoCalls)
    ELSE CompressedContentProvider_pass(self, ProviderReadChunk(self.sourceProvider, bufNull,
                                               maxSize, offset, env))

CompressedContentProvider_getTotalSize(self) ==
    IF self.sourceAbsent THEN 0 ELSE getTotalSize(self.sourceProvider)

CompressedContentProvider_getMimeType(self) == self.mimeType

CompressedContentProvider_reset(self, env) ==
    IF self.sourceAbsent
    THEN Result(<< >>, self, NoIO, NoCalls)
    ELSE CompressedContentProvider_pass(self, ProviderReset(self.sourceProvider, env))

CompressedContentProvider_isReady(self) == self.isReady

\* The providers that are wrapped: memory regions, generators and an empty
\* composite, ready and not.
WrappedSources ==
    MemoryProviders \cup GeneratorProviders \cup {MultiPartContentProvider(OctetStream)}

\* The record of a call on the wrapper: its arguments, the wrapper before
\* it (pre), what it returned and did (ret, io), and what the same call
\* made on the source itself returns and leaves (direct).
WrapCall(op, bufNull, maxSize, offset, r, pre, direct) ==
    [op |-> op, bufNull |-> bufNull, maxSize |-> maxSize, offset |-> offset,
     ret |-> r.ret, io |-> r.io, calls |-> r.calls, pre |-> pre, direct |-> direct]

WrapperInit ==
    /\ \E absent \in BOOLEAN, source \in WrappedSources :
          prov = CompressedContentProvider(absent,
                                           IF absent THEN NoProvider ELSE source)
    /\ last = WrapCall("construct", FALSE, 0, 0, NoResult(prov), prov,
                       NoResult(prov.sourceProvider))
    /\ loop = Unused
    /\ sd = Unused /\ sdCall = Unused
    /\ wsc = Unused /\ wscCall = Unused /\ xfer = Unused

WrapIdle == last.op \in {"construct", "idle"}

\* The state after a call on the wrapper that returned r.
Wrapped(op, bufNull, maxSize, offset, r, direct) ==
    /\ prov' = r.self
    /\ last' = WrapCall(op, bufNull, maxSize, offset, r, prov, direct)
    /\ UNCHANGED << loop, sdVars, wscVars >>

WrapReadChunk(bufNull, maxSize, offset, env) ==
    /\ WrapIdle
    /\ Wrapped("readChunk", bufNull, maxSize, offset,
               CompressedContentProvider_readChunk(prov, bufNull, maxSize, offset, env),
               IF prov.sourceAbsent THEN NoResult(prov.sourceProvider)
               ELSE ProviderReadChunk(prov.sourceProvider, bufNull, maxSize,
                                      offset, env))

WrapReset(env) ==
    /\ WrapIdle
    /\ Wrapped("reset", FALSE, 0, 0,
               CompressedContentProvider_reset(prov, env),
               IF prov.sourceAbsent THEN NoResult(prov.sourceProvider)
               ELSE ProviderReset(prov.sourceProvider, env))

\* The caller is done with the result of the last call.
WrapDiscard ==
    /\ ~WrapIdle
    /\ last' = WrapCall("idle", FALSE, 0, 0, NoResult(prov), prov,
                        NoResult(prov.sourceProvider))
    /\ UNCHANGED << prov, loop, sdVars, wscVars >>

WrapperNext ==
    \/ \E bufNull \in BOOLEAN, maxSize \in 0..MaxChunk, offset \in 0..MaxOffset,
          env \in {NoStorageEnv} : WrapReadChunk(bufNull, maxSize, offset, env)
    \/ \E env \in {NoStorageEnv} : WrapReset(env)
    \/ WrapDiscard

WrapperSpec == WrapperInit /\ [][WrapperNext]_vars

\* C38: the wrapper is ready iff its source is present and ready, and on a
\* wrapper with a source getTotalSize and getMimeType return what the
\* source returns, readChunk returns the bytes that the same call on the
\* source returns and leaves the source as that call leaves it, and reset
\* leaves the source as its own reset does.
C38_Claim ==
    /\ CompressedContentProvider_isReady(prov)
          <=> (~prov.sourceAbsent /\ isReady(prov.sourceProvider))
    /\ ~prov.sourceAbsent =>
          /\ CompressedContentProvider_getTotalSize(prov)
                = getTotalSize(prov.sourceProvider)
          /\ CompressedContentProvider_getMimeType(prov)
                = getMimeType(prov.sourceProvider)
          /\ last.op \in {"readChunk", "reset"} =>
                /\ last.ret = last.direct.ret
                /\ last.io = last.direct.io
                /\ prov.sourceProvider = last.direct.self

====
